---- MODULE Spec2Model ----
(***************************************************************************)
(* JustCall transcript exporter: the retrieval pipeline of                 *)
(* src/services/justcall.ts (and the earlier copies of that module kept in *)
(* src/unnamed/part_001 and src/unnamed/part_002), the App that drives it  *)
(* (src/App.tsx), record normalization and the CSV serializer.             *)
(*                                                                         *)
(* The repository holds four builds of the service module.  The model     *)
(* carries the build as the variable `variant`:                           *)
(*   "LocalThenPublic"    src/services/justcall.ts  lines   1-182          *)
(*   "Failover"           src/services/justcall.ts  lines 184-391          *)
(*   "LocalThenFallbacks" src/unnamed/part_001      lines 183-400          *)
(*   "StrictLocal"        src/unnamed/part_002      lines   1-164          *)
(***************************************************************************)
EXTENDS Integers, Sequences, FiniteSets, TLC

VARIABLES
    variant,        \* which build of the service module is loaded
    \* ---- App.tsx state (useState hooks, lines 10-13)
    appState, transcripts, count, error,
    \* ---- one fetchJustCallTranscripts invocation (its locals)
    pc,             \* position of the async function
    page, hasMore, useFallback, activeStrategy,
    proxyIndex, lastError,          \* fetchWithFailover's loop position
    allTranscripts,
    inflight,       \* the HTTP request awaiting its response
    upstreamTotal,  \* number of call records upstream holds for the range
    events,         \* history of the invocation: requests, responses, progress, sleeps
    queries,        \* from, to, page and per_page of every page request sent so far
    returned, thrown,
    \* ---- one testConnection invocation
    tpc, tInflight, tProxyIndex, tLastError, tEvents, tResult, tThrown,
    \* ---- record normalization on its own
    call, normalized,
    \* ---- CSV serialization on its own
    csvData, csvText,
    \* ---- the date range of a fetch on its own (config.startDate, config.endDate)
    startDate, endDate, startUnix, endUnix,
    \* ---- ExtractorBuilder (useState hooks, part_000 lines 11-18) and localStorage
    apiKey, apiSecret, isConfigured, isTesting, configError,
    storage,        \* the items jc_api_key and jc_api_secret of localStorage
    pending,        \* cleanKey and cleanSecret of the handleTestAndSave call under way
    sent,           \* the credentials in the requests of the service call in flight
    \* two invocations of fetchJustCallTranscripts made side by side: for each
    \* its local variables, what upstream holds for it and what it reported
    sessions

appVars   == <<appState, transcripts, count, error>>
fetchVars == <<pc, page, hasMore, useFallback, activeStrategy, proxyIndex, lastError,
               allTranscripts, inflight, upstreamTotal, events, queries, returned, thrown>>
testVars  == <<tpc, tInflight, tProxyIndex, tLastError, tEvents, tResult, tThrown>>
normVars  == <<call, normalized>>
csvVars   == <<csvData, csvText>>
dateVars  == <<startDate, endDate, startUnix, endUnix>>
builderVars == <<apiKey, apiSecret, isConfigured, isTesting, configError, storage,
                 pending, sent>>
sessionVars == <<sessions>>
vars      == <<variant, appVars, fetchVars, testVars, normVars, csvVars, dateVars,
               builderVars, sessionVars>>

----------------------------------------------------------------------------
(* Bounds of the model and constants of the program *)

\* per_page of every page request, and the last-page threshold
PER_PAGE == 50

\* upstream holds at most MaxFullPages full pages plus a partial one
MaxFullPages == 2

\* remainders 0..MaxRemainder and PER_PAGE-1 of the upstream total are explored
MaxRemainder == 2

\* transcripts of up to MaxLen characters go through the CSV serializer
MaxLen == 3

\* an upstream that never runs out of records is followed for MaxPage pages
MaxPage == 2

\* the key and the secret typed into the form have up to MaxKeyLen characters
MaxKeyLen == 2

Variants == {"LocalThenPublic", "Failover", "LocalThenFallbacks", "StrictLocal"}

Min(a, b) == IF a < b THEN a ELSE b

----------------------------------------------------------------------------
(* JavaScript values, as far as the code looks at them.                    *)
(* t is the typeof-style tag, v the payload as text (for a number its      *)
(* decimal form, for an object its JSON text), and pt/pv are the tag and   *)
(* payload of the value's `transcript` property (undefined when absent).   *)

Undefined == [t |-> "undefined", v |-> "", pt |-> "undefined", pv |-> ""]
JsNull    == [t |-> "null", v |-> "", pt |-> "undefined", pv |-> ""]
Str(s)    == [t |-> "string", v |-> s, pt |-> "undefined", pv |-> ""]
Num(s)    == [t |-> "number", v |-> s, pt |-> "undefined", pv |-> ""]
Bool(s)   == [t |-> "boolean", v |-> s, pt |-> "undefined", pv |-> ""]
\* an object whose JSON text is json and whose .transcript is the value p
Obj(json, p) == [t |-> "object", v |-> json, pt |-> p.t, pv |-> p.v]

\* ToBoolean: undefined, null, "", 0, NaN and false are falsy
Truthy(x) ==
    CASE x.t = "undefined" -> FALSE
      [] x.t = "null"      -> FALSE
      [] x.t = "string"    -> x.v # ""
      [] x.t = "number"    -> x.v \notin {"0", "NaN"}
      [] x.t = "boolean"   -> x.v = "true"
      [] OTHER             -> TRUE

\* a || b
JsOr(a, b) == IF Truthy(a) THEN a ELSE b

\* a && b
JsAnd(a, b) == IF Truthy(a) THEN b ELSE a

\* x.transcript for a non-nullish x (a primitive has no such property)
PropTranscript(x) == [t |-> x.pt, v |-> x.pv, pt |-> "undefined", pv |-> ""]

\* JSON.stringify(x) for the values that reach it
JSONStringify(x) ==
    CASE x.t = "string" -> "\"" \o x.v \o "\""
      [] x.t = "null"   -> "null"
      [] OTHER          -> x.v

NO_TRANSCRIPT == "[No Transcript Found]"

\* variant of the lookup with the first two fields in the other order
TranscriptTextSwapped(c) ==
    JsOr(c.call_transcription,
    JsOr(c.iq_transcript,
    JsOr(c.transcription,
    JsOr(JsAnd(c.extra_details, PropTranscript(c.extra_details)),
    JsOr(JsAnd(c.justcall_iq, PropTranscript(c.justcall_iq)),
         Str("[No Transcript Found]"))))))

\* the ordered lookup of the transcript text (the || chain)
TranscriptText(c) ==
    JsOr(c.iq_transcript,
    JsOr(c.call_transcription,
    JsOr(c.transcription,
    JsOr(JsAnd(c.extra_details, PropTranscript(c.extra_details)),
    JsOr(JsAnd(c.justcall_iq, PropTranscript(c.justcall_iq)),
         Str(NO_TRANSCRIPT))))))

\* variant of the conversion that gives up on a value that is not text
TranscriptStringTextOnly(text) ==
    IF text.t = "string" THEN text ELSE Str(NO_TRANSCRIPT)

\* typeof text === 'string' ? text : JSON.stringify(text)
TranscriptString(text) ==
    IF text.t = "string" THEN text ELSE Str(JSONStringify(text))

\* reading a property of null or undefined throws a TypeError
ThrowsOnRead(c) == c.self \in {"null", "undefined"}

\* variant of the pushed object in which `to` has no fallback literal
TranscriptDataOfNoToDefault(c) ==
    [id            |-> c.id,
     datetime      |-> JsOr(c.datetime, JsOr(c.date, Str("Unknown Date"))),
     from          |-> JsOr(c.from, Str("Unknown")),
     to            |-> c.to,
     duration      |-> JsOr(c.duration, Str("0")),
     direction     |-> JsOr(c.direction, Str("Unknown")),
     transcript    |-> TranscriptString(TranscriptText(c)),
     recording_url |-> JsOr(c.recording_url, Str(""))]

\* the object pushed on allTranscripts for one element of calls
TranscriptDataOf(c) ==
    [id            |-> c.id,
     datetime      |-> JsOr(c.datetime, JsOr(c.date, Str("Unknown Date"))),
     from          |-> JsOr(c.from, Str("Unknown")),
     to            |-> JsOr(c.to, Str("Unknown")),
     duration      |-> JsOr(c.duration, Str("0")),
     direction     |-> JsOr(c.direction, Str("Unknown")),
     transcript    |-> TranscriptString(TranscriptText(c)),
     recording_url |-> JsOr(c.recording_url, Str(""))]

NoRecord ==
    [id |-> Undefined, datetime |-> Undefined, from |-> Undefined, to |-> Undefined,
     duration |-> Undefined, direction |-> Undefined, transcript |-> Undefined,
     recording_url |-> Undefined]

\* one iteration of `for (const call of calls)`: the record, or a throw
NormalizeCall(c) ==
    IF ThrowsOnRead(c)
    THEN [threw |-> TRUE, record |-> NoRecord]
    ELSE [threw |-> FALSE, record |-> TranscriptDataOf(c)]

\* an element of a page: self is what the element is; a non-object has no fields
RawCall(self, f) ==
    [self |-> self,
     id |-> f.id, datetime |-> f.datetime, date |-> f.date, from |-> f.from, to |-> f.to,
     duration |-> f.duration, direction |-> f.direction,
     recording_url |-> f.recording_url,
     iq_transcript |-> f.iq_transcript, call_transcription |-> f.call_transcription,
     transcription |-> f.transcription, extra_details |-> f.extra_details,
     justcall_iq |-> f.justcall_iq]

NoFields ==
    [id |-> Undefined, datetime |-> Undefined, date |-> Undefined, from |-> Undefined,
     to |-> Undefined, duration |-> Undefined, direction |-> Undefined,
     recording_url |-> Undefined, iq_transcript |-> Undefined,
     call_transcription |-> Undefined, transcription |-> Undefined,
     extra_details |-> Undefined, justcall_iq |-> Undefined]

\* the empty object {}
EmptyCall == RawCall("object", NoFields)

\* a null where a call record should be
NullCall == RawCall("null", NoFields)

----------------------------------------------------------------------------
(* The environment: axios.get, its failures, and the upstream call list.   *)

\* error.response?.status is 0 when the request got no HTTP response
HttpError(s) ==
    [status  |-> s,
     message |-> "Request failed with status code " \o ToString(s),
     code    |-> IF s >= 500 THEN "ERR_BAD_RESPONSE" ELSE "ERR_BAD_REQUEST",
     body    |-> CASE s = 401 -> "Unauthorized"
                   [] s = 403 -> "Forbidden"
                   [] s = 404 -> "Not Found"
                   [] s = 429 -> "Too Many Requests"
                   [] OTHER   -> "Internal Server Error"]

NetworkError ==
    [status |-> 0, message |-> "Network Error", code |-> "ERR_NETWORK", body |-> ""]

\* a transport failure that is not axios' "Network Error" (the 15 s timeout)
TimeoutError ==
    [status |-> 0, message |-> "timeout of 15000ms exceeded", code |-> "ECONNABORTED",
     body |-> ""]

\* reading .data of a null response body
TypeError ==
    [status |-> 0, message |-> "Cannot read properties of null (reading 'data')",
     code |-> "", body |-> ""]

\* reading .iq_transcript of a null element of calls
ItemTypeError ==
    [status |-> 0, message |-> "Cannot read properties of null (reading 'iq_transcript')",
     code |-> "", body |-> ""]

NoError == [status |-> 0, message |-> "", code |-> "", body |-> ""]

HttpStatuses == {401, 403, 404, 429, 500}

AxiosErrors == {HttpError(s) : s \in HttpStatuses} \cup {NetworkError, TimeoutError}

\* response.data of a successful page request: {data: [...]}, [...], an array
\* one of whose elements is null instead of a record, an object holding no
\* array, or null
BodyShapes == {"wrapped", "bare", "nullitem", "object", "null"}

\* what the range can hold: k full pages plus a remainder
UpstreamTotals ==
    {k * PER_PAGE + r : k \in 0..MaxFullPages,
                        r \in (0..MaxRemainder) \cup {PER_PAGE - 1}}

\* the call records upstream holds are numbered 1..total; their content repeats
SampleFields ==
    << [NoFields EXCEPT !.iq_transcript = Str("A"), !.call_transcription = Str("B"),
                        !.datetime = Str("2024-01-01 10:00:00"), !.from = Str("+15550001"),
                        !.to = Str("+15550002"), !.duration = Num("42"),
                        !.direction = Str("Incoming"),
                        !.recording_url = Str("https://rec/1")],
       [NoFields EXCEPT !.transcription = Str("C"), !.date = Str("2024-01-02"),
                        !.duration = Num("0")],
       NoFields,
       [NoFields EXCEPT !.extra_details = Obj("{\"transcript\":\"D\"}", Str("D")),
                        !.from = Str("+15550003")] >>

UpstreamCall(j) ==
    RawCall("object",
            [SampleFields[(j % Len(SampleFields)) + 1] EXCEPT !.id = Num(ToString(j))])

\* the records upstream returns for page p with per_page = PER_PAGE
PageCalls(total, p) ==
    LET lo == (p - 1) * PER_PAGE + 1
        hi == Min(p * PER_PAGE, total)
    IN  IF hi < lo THEN << >> ELSE [i \in 1..(hi - lo + 1) |-> UpstreamCall(lo + i - 1)]

\* the relays behind the URL builders
PROXY_SERVICES == <<"corsproxy", "allorigins", "thingproxy">>
getFallbackUrls == <<"corsproxy", "allorigins">>

NoRequest == [kind |-> "none", via |-> "", page |-> 0, per_page |-> 0, auth |-> ""]

\* the ?page=1&per_page=1 request of strategy detection
ProbeRequest(via, auth) ==
    [kind |-> "probe", via |-> via, page |-> 1, per_page |-> 1, auth |-> auth]

\* the request the page loop issues for page p in the given build
PageRequest(v, fallback, strategy, proxy, p) ==
    CASE v = "LocalThenPublic" ->
           [kind |-> "page", via |-> IF fallback THEN "corsproxy" ELSE "local",
            page |-> p, per_page |-> PER_PAGE, auth |-> "header"]
      [] v = "Failover" ->
           [kind |-> "page", via |-> PROXY_SERVICES[proxy],
            page |-> p, per_page |-> PER_PAGE, auth |-> "both"]
      [] v = "LocalThenFallbacks" ->
           [kind |-> "page",
            via |-> CASE strategy = "LOCAL"   -> "local"
                      [] strategy = "PROXY_1" -> getFallbackUrls[1]
                      [] OTHER                -> getFallbackUrls[2],
            page |-> p, per_page |-> PER_PAGE,
            auth |-> IF strategy = "LOCAL" THEN "header" ELSE "query"]
      [] OTHER ->
           [kind |-> "page", via |-> "local", page |-> p, per_page |-> PER_PAGE,
            auth |-> "header"]

\* the history entries
ReqEvent(r)       == [e |-> "request", what |-> r.kind, via |-> r.via, page |-> r.page, n |-> r.per_page]
RespEvent(r, w, n) == [e |-> "response", what |-> w, via |-> r.via, page |-> r.page, n |-> n]
FailEvent(r, err) == [e |-> "failure", what |-> r.kind, via |-> r.via, page |-> r.page, n |-> err.status]
\* a relay attempt inside fetchWithFailover failed (the error is kept in lastError)
RelayFailEvent(r) == [e |-> "relayfailure", what |-> r.kind, via |-> r.via, page |-> r.page, n |-> 0]
ProgressEvent(p, n) == [e |-> "progress", what |-> "", via |-> "", page |-> p, n |-> n]
SleepEvent(p, ms) == [e |-> "sleep", what |-> "", via |-> "", page |-> p, n |-> ms]

----------------------------------------------------------------------------
(* fetchJustCallTranscripts: the decisions of its body as operators        *)

\* variant of the fallback condition: any failure of the local probe falls back
ShouldFallbackOnAnyError(err) == TRUE

\* the condition under which the local probe's failure switches to the fallback
ShouldFallback(err) ==
    err.status = 404 \/ err.message = "Network Error" \/ err.code = "ERR_NETWORK"

\* calls, as each build derives it from response.data; threw when the
\* derivation reads a property of null
ExtractCalls(v, shape, pageCalls) ==
    CASE shape \in {"wrapped", "bare"} -> [threw |-> FALSE, calls |-> pageCalls]
      [] shape = "nullitem" ->
           [threw |-> FALSE,
            calls |-> [i \in 1..Len(pageCalls) |->
                          IF i = Min(2, Len(pageCalls)) THEN NullCall ELSE pageCalls[i]]]
      [] shape = "object"              -> [threw |-> FALSE, calls |-> << >>]
      [] OTHER -> \* null: only the failover build tests !data first
           [threw |-> v # "Failover", calls |-> << >>]

\* what the history keeps of a payload: an array of records, or what else it was
PayloadKind(shape) ==
    CASE shape \in {"wrapped", "bare"} -> "array"
      [] shape = "nullitem"            -> "badarray"
      [] OTHER                         -> shape

\* variants of the last-page test: a full page ends the loop; a page one short does not
IsLastPageInclusive(n) == n <= PER_PAGE
IsLastPageOneShort(n) == n < PER_PAGE - 1

\* `if (calls.length < 50) hasMore = false; else page++`
IsLastPage(n) == n < PER_PAGE

\* variant of the progress argument: the size of the page instead of the total
OnProgressArgPageSize(acc, calls) == Len(calls)

\* the argument of onProgress(allTranscripts.length)
OnProgressArg(acc, calls) == Len(acc)

\* variant of the for loop that walks the page from its last element to its first
NormalizeAllBackwards(calls) ==
    LET bad == {i \in 1..Len(calls) : NormalizeCall(calls[i]).threw}
    IN  [threw   |-> bad # {},
         records |-> IF bad # {} THEN << >>
                     ELSE [i \in 1..Len(calls) |->
                              NormalizeCall(calls[Len(calls) + 1 - i]).record]]

\* the for loop over calls: the records pushed, and whether an iteration threw
NormalizeAll(calls) ==
    LET bad == {i \in 1..Len(calls) : NormalizeCall(calls[i]).threw}
        upto == IF bad = {} THEN Len(calls)
                ELSE (CHOOSE i \in bad : \A j \in bad : i <= j) - 1
    IN  [threw   |-> bad # {},
         records |-> [i \in 1..upto |-> NormalizeCall(calls[i]).record]]

\* variant of the accumulation that keeps the records of the latest page only
PushAllReplacing(acc, records) == records

\* allTranscripts.push(...) for each record of the page, in order
PushAll(acc, records) == acc \o records

\* variant of the delay: the sleep is not waited for
SleepDelayNone(v) == 0

\* the inter-page delay of each build, in ms
SleepDelay(v) ==
    CASE v = "Failover"    -> 1000
      [] v = "StrictLocal" -> 2000
      [] OTHER             -> 500

\* the message of the Error the catch block of the page loop throws
FetchErrorMessage(v, err) ==
    CASE v = "LocalThenPublic" ->
           "Failed to retrieve transcripts. Please check connection."
      [] v = "LocalThenFallbacks" ->
           "Failed to retrieve transcripts. Network blocked or Rate Limit reached."
      [] v = "StrictLocal" ->
           IF err.status = 404 THEN "PROXY STOPPED: Please restart the server."
           ELSE IF err.message # "" THEN err.message
           ELSE "Failed to retrieve transcripts."
      [] OTHER ->
           IF err.message = "Network Error"
           THEN "Network Error: Proxies were blocked. Please check your internet connection or disable ad-blockers."
           ELSE IF err.status # 0
           THEN IF err.status \in {401, 403}
                THEN "Authentication Failed (" \o ToString(err.status) \o "). Please check API Credentials."
                ELSE IF err.status = 429
                THEN "Rate Limit Exceeded. Please try a smaller date range."
                ELSE "API Error (" \o ToString(err.status) \o "): " \o err.body
           ELSE IF err.message # "" THEN err.message
           ELSE "Failed to connect to JustCall."

----------------------------------------------------------------------------
(* App.tsx: handleFetchRequest around the fetch                            *)

NoErrorText == "null"
NoDataHint ==
    "Connection successful, but no transcripts were found in this date range. Try expanding your search dates."

\* variant of the continuation that never sets the no-data hint
AppResolvedNoHint(data) ==
    /\ transcripts' = data
    /\ appState' = "COMPLETE"
    /\ error' = error

\* the lines after `await fetchJustCallTranscripts(...)` when it resolved with data
AppResolved(data) ==
    /\ transcripts' = data
    /\ appState' = "COMPLETE"
    /\ error' = IF Len(data) = 0 THEN NoDataHint ELSE error

\* variant of the catch block that shows the records fetched before the failure
AppRejectedShowingPartial(msg) ==
    /\ error' = IF msg # "" THEN msg
                ELSE "Failed to fetch data. Please check your credentials."
    /\ appState' = "ERROR"
    /\ transcripts' = allTranscripts

\* the catch block of handleFetchRequest
AppRejected(msg) ==
    /\ error' = IF msg # "" THEN msg
                ELSE "Failed to fetch data. Please check your credentials."
    /\ appState' = "ERROR"
    /\ UNCHANGED transcripts

\* the fetch settles: the promise resolves with allTranscripts or rejects
Resolve(acc) ==
    /\ pc' = "resolved"
    /\ returned' = acc
    /\ thrown' = ""
    /\ inflight' = NoRequest
    /\ AppResolved(acc)

\* variant of the catch block that waits and asks for the page again
RejectThenRetry(err) ==
    /\ pc' = "sleep"
    /\ thrown' = ""
    /\ returned' = << >>
    /\ inflight' = NoRequest
    /\ UNCHANGED <<appState, transcripts, error>>

\* variant of the catch block that swallows the error and returns what it has
RejectReturnsPartial(err) == Resolve(allTranscripts)

Reject(err) ==
    /\ pc' = "rejected"
    /\ thrown' = FetchErrorMessage(variant, err)
    /\ returned' = << >>
    /\ inflight' = NoRequest
    /\ AppRejected(FetchErrorMessage(variant, err))

\* a YYYY-MM-DD string, as the record of its year, month and day
DateString(y, m, d) == [y |-> y, m |-> m, d |-> d]

\* new Date("YYYY-MM-DD"): a date-only string is read as midnight UTC of that
\* day; the day number since 1970-01-01 from the civil date
DayNumber(date) ==
    LET y   == IF date.m <= 2 THEN date.y - 1 ELSE date.y
        era == y \div 400
        yoe == y - era * 400
        mp  == IF date.m > 2 THEN date.m - 3 ELSE date.m + 9
        doy == (153 * mp + 2) \div 5 + date.d - 1
        doe == yoe * 365 + yoe \div 4 - yoe \div 100 + doy
    IN  era * 146097 + doe - 719468

\* Date.prototype.getTime(): milliseconds since the epoch, kept as whole
\* seconds and the milliseconds left over
GetTime(date) == [s |-> DayNumber(date) * 86400, ms |-> 0]

\* Math.floor(t / 1000)
FloorSeconds(t) == t.s

\* Math.floor(new Date(config.startDate).getTime() / 1000)
StartUnixOf(date) == FloorSeconds(GetTime(date))

\* variant of the end of the range that adds a whole day
EndUnixWholeDay(date) == FloorSeconds(GetTime(date)) + 86400

\* Math.floor(new Date(config.endDate).getTime() / 1000) + 86399
EndUnixOf(date) == FloorSeconds(GetTime(date)) + 86399

\* variant of the range that reads the date inputs again for every page
QueryRangeFromInputs(consts, inputs) ==
    [from |-> StartUnixOf(inputs.startDate), to |-> EndUnixOf(inputs.endDate)]

\* ?from=${startUnix}&to=${endUnix}: the two constants computed before the loop
QueryRange(consts, inputs) == consts

\* the query string of the page request req
PageQuery(req, consts, inputs) ==
    [from |-> QueryRange(consts, inputs).from, to |-> QueryRange(consts, inputs).to,
     page |-> req.page, per_page |-> req.per_page]

\* the step has sent a page request: its query string is kept
SendQuery(qs) ==
    queries' = IF inflight'.kind = "page"
               THEN Append(qs, PageQuery(inflight', [from |-> startUnix', to |-> endUnix'],
                                         [startDate |-> startDate', endDate |-> endDate']))
               ELSE qs

\* variant of the request that does not wait: the request of the page after p
\* is sent along with the request of page p
IssuePagePrefetch(p, fallback, strategy, evs) ==
    LET req == PageRequest(variant, fallback, strategy, 1, p)
        nxt == PageRequest(variant, fallback, strategy, 1, p + 1)
    IN  /\ pc' = "request"
        /\ inflight' = req
        /\ proxyIndex' = 1
        /\ lastError' = NoError
        /\ events' = Append(Append(evs, ReqEvent(req)), ReqEvent(nxt))

\* variant of the request in which the strategy is looked at again for every
\* page after the first and comes out as the other one
IssuePageOtherStrategy(p, fallback, strategy, evs) ==
    LET req == PageRequest(variant,
                           IF p > 1 THEN ~fallback ELSE fallback,
                           IF p > 1 /\ strategy = "LOCAL" THEN "PROXY_1"
                           ELSE IF p > 1 THEN "LOCAL" ELSE strategy,
                           IF p > 1 THEN 2 ELSE 1, p)
    IN  /\ pc' = "request"
        /\ inflight' = req
        /\ proxyIndex' = 1
        /\ lastError' = NoError
        /\ events' = Append(evs, ReqEvent(req))

\* the page loop issues the request for page p (through the first relay in
\* the failover build)
IssuePage(p, fallback, strategy, evs) ==
    LET req == PageRequest(variant, fallback, strategy, 1, p)
    IN  /\ pc' = "request"
        /\ inflight' = req
        /\ proxyIndex' = 1
        /\ lastError' = NoError
        /\ events' = Append(evs, ReqEvent(req))

\* variant of the flag that never disables the button
IsBuildingNever(state) == FALSE

\* isBuilding={appState === AppState.RESEARCHING}, which disables the submit button
IsBuilding(state) == state = "RESEARCHING"

\* handleFetchRequest up to the first await inside fetchJustCallTranscripts
HandleFetchRequest ==
    /\ ~IsBuilding(appState)
    /\ appState' = "RESEARCHING"
    /\ transcripts' = << >>
    /\ count' = 0
    /\ error' = NoErrorText
    /\ allTranscripts' = << >>
    /\ page' = 1
    /\ hasMore' = TRUE
    /\ useFallback' = FALSE
    /\ activeStrategy' = "LOCAL"
    /\ returned' = << >>
    /\ thrown' = ""
    /\ IF variant \in {"LocalThenPublic", "LocalThenFallbacks"}
       THEN /\ pc' = "detect"
            /\ inflight' = ProbeRequest("local", "header")
            /\ proxyIndex' = 1
            /\ lastError' = NoError
            /\ events' = << ReqEvent(ProbeRequest("local", "header")) >>
       ELSE IssuePage(1, FALSE, "LOCAL", << >>)
    /\ startUnix' = StartUnixOf(startDate)
    /\ endUnix' = EndUnixOf(endDate)
    /\ UNCHANGED <<variant, sessionVars, upstreamTotal, testVars, normVars, csvVars,
                   startDate, endDate, builderVars>>
    /\ SendQuery(<< >>)

\* Step 1 settles: the response (or failure) of the local probe
DetectLocal(ok, err) ==
    /\ pc = "detect"
    /\ LET evs == Append(events, IF ok THEN RespEvent(inflight, "probe", 0)
                                 ELSE FailEvent(inflight, err))
       IN  IF variant = "LocalThenPublic"
           THEN /\ useFallback' = (~ok /\ ShouldFallback(err))
                /\ IssuePage(page, ~ok /\ ShouldFallback(err), activeStrategy, evs)
                /\ UNCHANGED activeStrategy
           ELSE IF ok
           THEN /\ activeStrategy' = "LOCAL"
                /\ IssuePage(page, useFallback, "LOCAL", evs)
                /\ UNCHANGED useFallback
           ELSE /\ pc' = "detect2"
                /\ inflight' = ProbeRequest(getFallbackUrls[1], "query")
                /\ events' = Append(evs, ReqEvent(ProbeRequest(getFallbackUrls[1], "query")))
                /\ UNCHANGED <<useFallback, activeStrategy, proxyIndex, lastError>>
    /\ UNCHANGED <<variant, sessionVars, appVars, page, hasMore, allTranscripts,
                   upstreamTotal, returned, thrown, testVars, normVars, csvVars, dateVars, builderVars>>
    /\ SendQuery(queries)

\* the probe of the first public proxy settles (part_001 only)
DetectProxy(ok, err) ==
    /\ pc = "detect2"
    /\ LET evs == Append(events, IF ok THEN RespEvent(inflight, "probe", 0)
                                 ELSE FailEvent(inflight, err))
           strategy == IF ok THEN "PROXY_1" ELSE "PROXY_2"
       IN  /\ activeStrategy' = strategy
           /\ IssuePage(page, useFallback, strategy, evs)
    /\ UNCHANGED <<variant, sessionVars, appVars, page, hasMore, useFallback, allTranscripts,
                   upstreamTotal, returned, thrown, testVars, normVars, csvVars, dateVars, builderVars>>
    /\ SendQuery(queries)

\* a page request resolves: the loop body up to its next await, or to the return
PageSuccess(shape) ==
    /\ pc = "request"
    /\ shape = "nullitem" => PageCalls(upstreamTotal, inflight.page) # << >>
    /\ LET ext   == ExtractCalls(variant, shape, PageCalls(upstreamTotal, inflight.page))
           calls == ext.calls
           norm  == NormalizeAll(calls)
           acc   == PushAll(allTranscripts, norm.records)
           evs   == Append(events, RespEvent(inflight, PayloadKind(shape), Len(calls)))
       IN  IF ext.threw
           THEN /\ Reject(TypeError)
                /\ events' = evs
                /\ UNCHANGED <<count, page, hasMore, allTranscripts>>
           ELSE IF Len(calls) = 0
           THEN /\ hasMore' = FALSE
                /\ Resolve(allTranscripts)
                /\ events' = evs
                /\ UNCHANGED <<count, page, allTranscripts>>
           ELSE IF norm.threw
           THEN /\ allTranscripts' = acc
                /\ Reject(ItemTypeError)
                /\ events' = evs
                /\ UNCHANGED <<count, page, hasMore>>
           ELSE /\ allTranscripts' = acc
                /\ count' = OnProgressArg(acc, calls)     \* onProgress -> setCount
                /\ IF IsLastPage(Len(calls))
                   THEN /\ hasMore' = FALSE
                        /\ Resolve(acc)
                        /\ events' = Append(evs, ProgressEvent(page, OnProgressArg(acc, calls)))
                        /\ UNCHANGED page
                   ELSE /\ page' = page + 1
                        /\ pc' = "sleep"
                        /\ inflight' = NoRequest
                        /\ events' = Append(Append(evs, ProgressEvent(page, OnProgressArg(acc, calls))),
                                            SleepEvent(page, SleepDelay(variant)))
                        /\ UNCHANGED <<hasMore, returned, thrown, appState, transcripts, error>>
    /\ lastError' = NoError              \* fetchWithFailover returned
    /\ UNCHANGED <<variant, sessionVars, useFallback, activeStrategy, proxyIndex,
                   upstreamTotal, queries, testVars, normVars, csvVars, dateVars, builderVars>>

\* fetchWithFailover: a proxy failed and another one is left in PROXY_SERVICES
ProxyFailover(err) ==
    /\ pc = "request"
    /\ variant = "Failover"
    /\ proxyIndex < Len(PROXY_SERVICES)
    /\ LET req == PageRequest(variant, useFallback, activeStrategy, proxyIndex + 1, page)
       IN  /\ lastError' = err
           /\ proxyIndex' = proxyIndex + 1
           /\ inflight' = req
           /\ events' = Append(Append(events, RelayFailEvent(inflight)), ReqEvent(req))
    /\ UNCHANGED <<variant, sessionVars, appVars, pc, page, hasMore, useFallback, activeStrategy,
                   allTranscripts, upstreamTotal, returned, thrown,
                   testVars, normVars, csvVars, dateVars, builderVars>>
    /\ SendQuery(queries)

\* variant of the throw that keeps the error of the first relay that failed
FailoverThrowsEarlier(earlier, last) == IF earlier # NoError THEN earlier ELSE last

\* `lastError = err` in every catch, `throw lastError` after the loop
FailoverThrows(earlier, last) == last

\* a page request failed for good: the catch block of the loop, then the App's
PageFailure(err) ==
    /\ pc = "request"
    /\ variant = "Failover" => proxyIndex = Len(PROXY_SERVICES)
    /\ lastError' = IF variant = "Failover" THEN FailoverThrows(lastError, err) ELSE err
    /\ Reject(IF variant = "Failover" THEN FailoverThrows(lastError, err) ELSE err)
    /\ events' = Append(events, FailEvent(inflight, err))
    /\ UNCHANGED <<variant, sessionVars, count, page, hasMore, useFallback, activeStrategy, proxyIndex,
                   allTranscripts, upstreamTotal, queries, testVars, normVars, csvVars, dateVars, builderVars>>

\* the inter-page sleep ends: the next iteration issues its request
SleepElapsed ==
    /\ pc = "sleep"
    /\ IssuePage(page, useFallback, activeStrategy, events)
    /\ UNCHANGED <<variant, sessionVars, appVars, page, hasMore, useFallback, activeStrategy,
                   allTranscripts, upstreamTotal, returned, thrown,
                   testVars, normVars, csvVars, dateVars, builderVars>>
    /\ SendQuery(queries)

FetchNext ==
    \/ HandleFetchRequest
    \/ \E err \in AxiosErrors : DetectLocal(FALSE, err)
    \/ DetectLocal(TRUE, NoError)
    \/ \E err \in AxiosErrors : DetectProxy(FALSE, err)
    \/ DetectProxy(TRUE, NoError)
    \/ \E shape \in BodyShapes : PageSuccess(shape)
    \/ \E err \in AxiosErrors : ProxyFailover(err)
    \/ \E err \in AxiosErrors : PageFailure(err)
    \/ SleepElapsed

----------------------------------------------------------------------------
(* testConnection                                                          *)

\* the candidates a testConnection call goes through, in order
\* variant of the candidate list that tries the public relays before the
\* local proxy
TestCandidatesRelaysFirst(v) ==
    CASE v = "LocalThenPublic"    -> <<"corsproxy", "local">>
      [] v = "Failover"           -> PROXY_SERVICES
      [] v = "LocalThenFallbacks" -> getFallbackUrls \o <<"local">>
      [] OTHER                    -> <<"local">>

TestCandidates(v) ==
    CASE v = "LocalThenPublic"    -> <<"local", "corsproxy">>
      [] v = "Failover"           -> PROXY_SERVICES
      [] v = "LocalThenFallbacks" -> <<"local">> \o getFallbackUrls
      [] OTHER                    -> <<"local">>

\* how the probe of candidate idx carries the credentials
TestAuth(v, idx) ==
    CASE v = "Failover"                      -> "both"
      [] v = "LocalThenFallbacks" /\ idx > 1 -> "query"
      [] OTHER                               -> "header"

InvalidCredentials(status) ==
    "Invalid Credentials (Status " \o ToString(status) \o "). Please check your API Key/Secret."

\* the catch block of the failover build's testConnection, on the error that
\* fetchWithFailover threw
FailoverTestMessage(err) ==
    IF err.message = "Network Error"
    THEN "Network Error: Proxies blocked. Please disable AdBlockers/Privacy extensions for this page."
    ELSE IF err.status # 0
    THEN IF err.status = 403
         THEN "Access Denied (403). Check API Keys or IP Whitelist."
         ELSE "Server Error: " \o ToString(err.status)
    ELSE err.message

\* the catch block of the strict build's testConnection
StrictTestMessage(err) ==
    CASE err.status = 404          -> "PROXY ERROR (404): The server doesn't recognize '/justcall-api'. YOU MUST RESTART THE SERVER (Ctrl+C then 'npm run dev')."
      [] err.status \in {401, 403} -> "AUTH ERROR: Your API Key or Secret is incorrect."
      [] err.status = 429          -> "RATE LIMIT: You are testing too often. Wait 1 minute."
      [] err.message = "Network Error" -> "NETWORK ERROR: Browser blocked the request. Ensure you are on the correct preview URL."
      [] OTHER                     -> err.message

\* what testConnection does when the probe of candidate idx failed with err:
\* probe the next candidate, or throw an Error with the message given
TestOnFailure(v, idx, err) ==
    CASE v = "Failover" ->
           IF idx < Len(PROXY_SERVICES)
           THEN [next |-> TRUE, message |-> ""]
           ELSE [next |-> FALSE, message |-> FailoverTestMessage(err)]
      [] v = "StrictLocal" ->
           [next |-> FALSE, message |-> StrictTestMessage(err)]
      [] idx = 1 ->      \* the local proxy of the two local-first builds
           IF ShouldFallback(err) THEN [next |-> TRUE, message |-> ""]
           ELSE IF err.status \in {401, 403}
           THEN [next |-> FALSE, message |-> InvalidCredentials(err.status)]
           ELSE [next |-> FALSE, message |-> err.message]
      [] v = "LocalThenPublic" ->
           [next |-> FALSE,
            message |-> "Connection failed. Please check your API Key and Secret."]
      [] OTHER ->        \* testFallbacks
           IF idx < Len(TestCandidates(v))
           THEN [next |-> TRUE, message |-> ""]
           ELSE [next |-> FALSE,
                 message |-> "Connection failed. Could not reach JustCall via any proxy. Please check your internet connection."]

TestFailEvent(r, err) ==
    [e |-> "failure", what |-> err.code, via |-> r.via, page |-> r.page, n |-> err.status]

\* testConnection is called and issues its first probe
TestConnection ==
    /\ tpc # "probing"                    \* the Save & Connect button is disabled while testing
    /\ LET req == ProbeRequest(TestCandidates(variant)[1], TestAuth(variant, 1))
       IN  /\ tpc' = "probing"
           /\ tProxyIndex' = 1
           /\ tInflight' = req
           /\ tEvents' = << ReqEvent(req) >>
    /\ tLastError' = NoError
    /\ tResult' = FALSE
    /\ tThrown' = ""
    /\ UNCHANGED <<variant, sessionVars, appVars, fetchVars, normVars, csvVars, dateVars, builderVars>>

\* what a 2xx response to the probe can carry as response.data: a list with a
\* record, an empty list, an empty body, or a relay's own page
ProbeBodies == {"records", "emptylist", "emptybody", "html"}

TestRespEvent(r, body) ==
    [e |-> "response", what |-> body, via |-> r.via, page |-> r.page, n |-> 0]

\* variant of the verdict that wants to see a record in the response
ProbeVerdictNeedsData(body) == body = "records"

\* `await axios.get(...); return true;`: the response is not looked at
ProbeVerdict(body) == TRUE

\* a probe got a successful response with the given body: return true
TestProbeSuccess(body) ==
    /\ tpc = "probing"
    /\ tpc' = "resolved"
    /\ tResult' = ProbeVerdict(body)
    /\ tInflight' = NoRequest
    /\ tEvents' = Append(tEvents, TestRespEvent(tInflight, body))
    /\ UNCHANGED <<variant, sessionVars, appVars, fetchVars, tProxyIndex, tLastError, tThrown,
                   normVars, csvVars, dateVars, builderVars>>

\* a probe failed: the next candidate is probed, or testConnection throws
TestProbeFailure(err) ==
    /\ tpc = "probing"
    /\ LET todo == TestOnFailure(variant, tProxyIndex, err)
           req  == ProbeRequest(TestCandidates(variant)[tProxyIndex + 1],
                                TestAuth(variant, tProxyIndex + 1))
           evs  == Append(tEvents, TestFailEvent(tInflight, err))
       IN  IF todo.next
           THEN /\ tProxyIndex' = tProxyIndex + 1
                /\ tInflight' = req
                /\ tEvents' = Append(evs, ReqEvent(req))
                /\ UNCHANGED <<tpc, tThrown>>
           ELSE /\ tpc' = "rejected"
                /\ tThrown' = todo.message
                /\ tInflight' = NoRequest
                /\ tEvents' = evs
                /\ UNCHANGED tProxyIndex
    /\ tLastError' = err
    /\ UNCHANGED <<variant, sessionVars, appVars, fetchVars, tResult, normVars, csvVars, dateVars, builderVars>>

TestNext ==
    \/ TestConnection
    \/ \E body \in ProbeBodies : TestProbeSuccess(body)
    \/ \E err \in AxiosErrors : TestProbeFailure(err)

----------------------------------------------------------------------------
(* Record normalization on its own: one element of a page goes through the *)
(* body of the for loop.                                                   *)

DirectTexts(name) ==
    {Undefined, JsNull, Str(""), Str(name), Num("0"), Num("7"),
     Obj("[\"" \o name \o "\"]", Undefined)}       \* an array of utterances

NestedTexts(name) ==
    {Undefined, JsNull, Str("x"),
     Obj("{}", Undefined),
     Obj("{\"transcript\":\"" \o name \o "\"}", Str(name)),
     Obj("{\"transcript\":\"\"}", Str("")),
     Obj("{\"transcript\":{\"text\":\"" \o name \o "\"}}",
         Obj("{\"text\":\"" \o name \o "\"}", Undefined))}

\* what the other fields of a record may look like
FieldProfiles ==
    {NoFields,
     [NoFields EXCEPT !.id = Num("17"), !.datetime = Str("2024-01-01 10:00:00"),
                      !.date = Str("2024-01-01"), !.from = Str("+15550001"),
                      !.to = Str("+15550002"), !.duration = Num("42"),
                      !.direction = Str("Incoming"), !.recording_url = Str("https://rec/17")],
     [NoFields EXCEPT !.id = Str("c-18"), !.date = Str("2024-01-02"), !.from = Str(""),
                      !.to = JsNull, !.duration = Num("0"), !.direction = Str("Outgoing")]}

RawObjects ==
    {RawCall("object",
             [f EXCEPT !.iq_transcript = a, !.call_transcription = b, !.transcription = c,
                       !.extra_details = d, !.justcall_iq = g]) :
        f \in FieldProfiles, a \in DirectTexts("A"), b \in DirectTexts("B"),
        c \in DirectTexts("C"), d \in NestedTexts("D"), g \in NestedTexts("E")}

\* array elements that are not objects
RawNonObjects == {RawCall(k, NoFields) : k \in {"null", "number", "string"}}

RawCalls == RawObjects \cup RawNonObjects

NotNormalized == [done |-> FALSE, threw |-> FALSE, record |-> NoRecord]

\* the loop body runs on the element
Normalize ==
    /\ ~normalized.done
    /\ normalized' = [done   |-> TRUE,
                      threw  |-> NormalizeCall(call).threw,
                      record |-> NormalizeCall(call).record]
    /\ UNCHANGED <<variant, sessionVars, appVars, fetchVars, testVars, call, csvVars, dateVars, builderVars>>

\* the next element
NextCall ==
    /\ normalized.done
    /\ call' \in RawNonObjects \cup {EmptyCall}
    /\ normalized' = NotNormalized
    /\ UNCHANGED <<variant, sessionVars, appVars, fetchVars, testVars, csvVars, dateVars, builderVars>>

NormNext == Normalize \/ NextCall

----------------------------------------------------------------------------
(* convertToCSV.  Text is a sequence of characters here; a longer string   *)
(* with no comma, quote or line break in it stands as one character.       *)

QUOTE   == "\""
COMMA   == ","
NEWLINE == "\n"

RECURSIVE Join(_, _)
\* Array.prototype.join
Join(parts, sep) ==
    IF Len(parts) = 0 THEN << >>
    ELSE IF Len(parts) = 1 THEN parts[1]
    ELSE parts[1] \o sep \o Join(Tail(parts), sep)

\* variant of the escaping without the g flag: only the first quote is doubled
RECURSIVE DoubleFirstQuote(_)
DoubleFirstQuote(str) ==
    IF str = << >> THEN << >>
    ELSE IF Head(str) = QUOTE THEN <<QUOTE, QUOTE>> \o Tail(str)
    ELSE <<Head(str)>> \o DoubleFirstQuote(Tail(str))

RECURSIVE DoubleQuotes(_)
\* (row.transcript || '').replace(/"/g, '""')
DoubleQuotes(str) ==
    IF str = << >> THEN << >>
    ELSE (IF Head(str) = QUOTE THEN <<QUOTE, QUOTE>> ELSE <<Head(str)>>)
         \o DoubleQuotes(Tail(str))

CSV_HEADERS ==
    << <<"Call ID">>, <<"Date Time">>, <<"From">>, <<"To">>, <<"Direction">>,
       <<"Duration">>, <<"Transcript">>, <<"Recording URL">> >>

\* variant of the row in which duration is written before direction
CsvRowDurationFirst(row) ==
    Join(<< row.id, row.datetime, row.from, row.to, row.duration, row.direction,
            <<QUOTE>> \o DoubleQuotes(row.transcript) \o <<QUOTE>>,
            row.recording_url >>, <<COMMA>>)

\* the array built for one record, joined with commas
CsvRow(row) ==
    Join(<< row.id, row.datetime, row.from, row.to, row.direction, row.duration,
            <<QUOTE>> \o DoubleQuotes(row.transcript) \o <<QUOTE>>,
            row.recording_url >>, <<COMMA>>)

convertToCSV(data) ==
    Join(<<Join(CSV_HEADERS, <<COMMA>>)>> \o [i \in 1..Len(data) |-> CsvRow(data[i])],
         <<NEWLINE>>)

\* the inputs of the serializer
CsvChars == {"a", QUOTE, COMMA, NEWLINE}

CsvTexts(n) == UNION {[1..k -> CsvChars] : k \in 0..n}

PlainRecord(text) ==
    [id |-> <<"1">>, datetime |-> <<"2024-01-01 10:00:00">>, from |-> <<"+15550001">>,
     to |-> <<"+15550002">>, direction |-> <<"Incoming">>, duration |-> <<"42">>,
     transcript |-> text, recording_url |-> <<"https://rec/1">>]

\* He said "hi"
HeSaidHi == <<"He said ", QUOTE, "hi", QUOTE>>

CsvRecords ==
    {PlainRecord(t) : t \in CsvTexts(MaxLen) \cup {HeSaidHi}}
    \cup {[PlainRecord(t) EXCEPT !.from = <<"Doe", COMMA, " John">>] : t \in CsvTexts(1)}

CsvInputs ==
    {<< >>} \cup {<<r>> : r \in CsvRecords}
    \cup {<<r, q>> : r \in CsvRecords, q \in {PlainRecord(t) : t \in CsvTexts(1)}}

\* convertToCSV(data) for the list held
ExportCsv ==
    /\ csvText = << >>
    /\ csvText' = convertToCSV(csvData)
    /\ UNCHANGED <<variant, sessionVars, appVars, fetchVars, testVars, normVars, csvData, dateVars, builderVars>>

\* another export, of another list
NextExport ==
    /\ csvText # << >>
    /\ csvData' \in {<< >>, <<PlainRecord(HeSaidHi)>>}
    /\ csvText' = << >>
    /\ UNCHANGED <<variant, sessionVars, appVars, fetchVars, testVars, normVars, dateVars, builderVars>>

CsvNext == ExportCsv \/ NextExport

\* what Array.prototype.join writes for a cell: nothing for undefined, null
\* and the empty string, the text of the value otherwise
JoinedText(x) ==
    IF x.t \in {"undefined", "null"} \/ x.v = "" THEN << >> ELSE <<x.v>>

\* a record of the transcript list as convertToCSV reads it
CsvFields(row) ==
    [id |-> JoinedText(row.id), datetime |-> JoinedText(row.datetime),
     from |-> JoinedText(row.from), to |-> JoinedText(row.to),
     direction |-> JoinedText(row.direction), duration |-> JoinedText(row.duration),
     transcript |-> IF Truthy(row.transcript) THEN <<row.transcript.v>> ELSE << >>,
     recording_url |-> JoinedText(row.recording_url)]

\* variant of the test that never finds the list empty
NothingToExportNever(list) == FALSE

\* transcripts.length === 0
NothingToExport(list) == Len(list) = 0

\* handleDownload of the App: csvData is the list handed to convertToCSV and
\* csvText the content of the file the click on the link downloads
HandleDownload ==
    /\ IF NothingToExport(transcripts)
       THEN UNCHANGED csvVars
       ELSE LET rows == [i \in 1..Len(transcripts) |-> CsvFields(transcripts[i])]
            IN  /\ csvData' = rows
                /\ csvText' = convertToCSV(rows)
    /\ UNCHANGED <<variant, sessionVars, appVars, fetchVars, testVars, normVars, dateVars, builderVars>>

----------------------------------------------------------------------------
(* The date range on its own: startUnix and endUnix from config.startDate   *)
(* and config.endDate, the YYYY-MM-DD strings of the two date inputs.       *)

\* what the two date inputs are set to
SampleDates ==
    {DateString(2023, 2, 28), DateString(2023, 3, 1), DateString(2023, 12, 31),
     DateString(2024, 1, 1), DateString(2024, 1, 2), DateString(2024, 2, 28),
     DateString(2024, 2, 29), DateString(2024, 3, 1), DateString(2024, 3, 10),
     DateString(2024, 3, 11), DateString(2024, 11, 3), DateString(2024, 12, 31)}

NotComputed == -1

\* the two lines that compute startUnix and endUnix
ComputeRange ==
    /\ startUnix = NotComputed
    /\ startUnix' = StartUnixOf(startDate)
    /\ endUnix' = EndUnixOf(endDate)
    /\ UNCHANGED <<variant, sessionVars, appVars, fetchVars, testVars, normVars, csvVars,
                   startDate, endDate, builderVars>>

\* the user sets the date inputs for another extraction
SetDates ==
    /\ startUnix # NotComputed
    /\ startDate' \in {DateString(2024, 1, 1)}
    /\ endDate' \in {DateString(2024, 1, 1), DateString(2024, 12, 31)}
    /\ startUnix' = NotComputed
    /\ endUnix' = NotComputed
    /\ UNCHANGED <<variant, sessionVars, appVars, fetchVars, testVars, normVars, csvVars, builderVars>>

DateNext == ComputeRange \/ SetDates

\* onChange of the start date input
SetStartDate(d) ==
    /\ startDate' = d
    /\ UNCHANGED <<variant, sessionVars, appVars, fetchVars, testVars, normVars, csvVars,
                   endDate, startUnix, endUnix, builderVars>>

\* onChange of the end date input
SetEndDate(d) ==
    /\ endDate' = d
    /\ UNCHANGED <<variant, sessionVars, appVars, fetchVars, testVars, normVars, csvVars,
                   startDate, startUnix, endUnix, builderVars>>

----------------------------------------------------------------------------
(* ExtractorBuilder (src/unnamed/part_000): the credentials form, the      *)
(* saved credentials and the two buttons that call into the service.  A    *)
(* credential is a string of the characters " " and "k".  The service call *)
(* is seen from this component: it is started with some credentials and    *)
(* it settles.                                                             *)

KeyChars == {" ", "k"}

KeyStrings == UNION {[1..n -> KeyChars] : n \in 0..MaxKeyLen}

RECURSIVE TrimStart(_)
TrimStart(str) ==
    IF str # << >> /\ Head(str) = " " THEN TrimStart(Tail(str)) ELSE str

RECURSIVE TrimEnd(_)
TrimEnd(str) ==
    IF str # << >> /\ str[Len(str)] = " " THEN TrimEnd(SubSeq(str, 1, Len(str) - 1)) ELSE str

\* variant of the cleaning that leaves the input as typed
NotTrimmed(str) == str

\* String.prototype.trim
Trim(str) == TrimEnd(TrimStart(str))

\* localStorage.getItem of a key that is not set
NullItem == <<"null">>

EmptyStorage == [jc_api_key |-> NullItem, jc_api_secret |-> NullItem]

NoPending == [key |-> << >>, secret |-> << >>]

NoneSent == [by |-> "none", key |-> << >>, secret |-> << >>]

NoConfigError == "null"

\* the key and the secret a service function puts in its requests when called
\* with (key, secret): every build trims them except the failover build
CredentialsSent(v, by, key, secret) ==
    [by |-> by,
     key |-> IF v = "Failover" THEN key ELSE Trim(key),
     secret |-> IF v = "Failover" THEN secret ELSE Trim(secret)]

\* savedKey && savedSecret
HasSaved(st) ==
    /\ st.jc_api_key # NullItem /\ st.jc_api_key # << >>
    /\ st.jc_api_secret # NullItem /\ st.jc_api_secret # << >>

\* the component state after mounting: the useEffect has loaded what is saved
Mounted(st) ==
    /\ apiKey' = IF HasSaved(st) THEN st.jc_api_key ELSE << >>
    /\ apiSecret' = IF HasSaved(st) THEN st.jc_api_secret ELSE << >>
    /\ isConfigured' = HasSaved(st)
    /\ isTesting' = FALSE
    /\ configError' = NoConfigError

\* onChange of the key input (the form of the setup view)
SetApiKey(k) ==
    /\ ~isConfigured
    /\ apiKey' = k
    /\ UNCHANGED <<variant, sessionVars, appVars, fetchVars, testVars, normVars, csvVars, dateVars,
                   apiSecret, isConfigured, isTesting, configError, storage, pending, sent>>

\* onChange of the secret input
SetApiSecret(k) ==
    /\ ~isConfigured
    /\ apiSecret' = k
    /\ UNCHANGED <<variant, sessionVars, appVars, fetchVars, testVars, normVars, csvVars, dateVars,
                   apiKey, isConfigured, isTesting, configError, storage, pending, sent>>

\* handleTestAndSave up to its await (or to its early return)
HandleTestAndSave ==
    /\ ~isConfigured
    /\ ~isTesting                       \* the button is disabled while testing
    /\ apiKey # << >> /\ apiSecret # << >>   \* both inputs are `required`
    /\ LET cleanKey    == Trim(apiKey)
           cleanSecret == Trim(apiSecret)
       IN  IF cleanKey = << >> \/ cleanSecret = << >>
           THEN /\ configError' = "Please enter both API Key and Secret."
                /\ isTesting' = FALSE
                /\ UNCHANGED <<pending, sent>>
           ELSE /\ configError' = NoConfigError
                /\ isTesting' = TRUE
                /\ pending' = [key |-> cleanKey, secret |-> cleanSecret]
                /\ sent' = CredentialsSent(variant, "testConnection", cleanKey, cleanSecret)
    /\ UNCHANGED <<variant, sessionVars, appVars, fetchVars, testVars, normVars, csvVars, dateVars,
                   apiKey, apiSecret, isConfigured, storage>>

\* testConnection returned: the credentials are saved
TestAndSaveResolved ==
    /\ isTesting
    /\ storage' = [jc_api_key |-> pending.key, jc_api_secret |-> pending.secret]
    /\ apiKey' = pending.key
    /\ apiSecret' = pending.secret
    /\ isConfigured' = TRUE
    /\ isTesting' = FALSE
    /\ pending' = NoPending
    /\ sent' = NoneSent
    /\ UNCHANGED <<variant, sessionVars, appVars, fetchVars, testVars, normVars, csvVars, dateVars,
                   configError>>

\* variant of the catch block that saves the credentials all the same
TestAndSaveRejectedSaving(msg) ==
    /\ isTesting
    /\ configError' = IF msg # "" THEN msg ELSE "Connection failed. Please check your keys."
    /\ storage' = [jc_api_key |-> pending.key, jc_api_secret |-> pending.secret]
    /\ isConfigured' = TRUE
    /\ isTesting' = FALSE
    /\ pending' = NoPending
    /\ sent' = NoneSent
    /\ UNCHANGED <<variant, sessionVars, appVars, fetchVars, testVars, normVars, csvVars, dateVars,
                   apiKey, apiSecret>>

\* testConnection threw
TestAndSaveRejected(msg) ==
    /\ isTesting
    /\ configError' = IF msg # "" THEN msg ELSE "Connection failed. Please check your keys."
    /\ isTesting' = FALSE
    /\ pending' = NoPending
    /\ sent' = NoneSent
    /\ UNCHANGED <<variant, sessionVars, appVars, fetchVars, testVars, normVars, csvVars, dateVars,
                   apiKey, apiSecret, isConfigured, storage>>

\* handleRunExtraction: onBuild is App's handleFetchRequest, up to the fetch's
\* first request
HandleRunExtraction ==
    /\ isConfigured                     \* the extraction view is shown
    /\ ~IsBuilding(appState)            \* disabled={isBuilding}
    /\ appState' = "RESEARCHING"
    /\ transcripts' = << >>
    /\ count' = 0
    /\ error' = NoErrorText
    /\ sent' = CredentialsSent(variant, "fetchJustCallTranscripts", apiKey, apiSecret)
    /\ UNCHANGED <<variant, sessionVars, fetchVars, testVars, normVars, csvVars, dateVars,
                   apiKey, apiSecret, isConfigured, isTesting, configError, storage, pending>>

\* the fetch started by handleRunExtraction settles
ExtractionSettled(ok) ==
    /\ appState = "RESEARCHING"
    /\ IF ok THEN AppResolved(<< >>)
       ELSE AppRejected("Failed to retrieve transcripts. Please check connection.")
    /\ sent' = IF sent.by = "fetchJustCallTranscripts" THEN NoneSent ELSE sent
    /\ UNCHANGED <<variant, sessionVars, count, fetchVars, testVars, normVars, csvVars, dateVars,
                   apiKey, apiSecret, isConfigured, isTesting, configError, storage, pending>>

\* variant of the reset that removes the saved key and leaves the saved secret
ResetConfigKeyOnly(confirmed) ==
    /\ isConfigured
    /\ IF confirmed
       THEN /\ storage' = [storage EXCEPT !.jc_api_key = NullItem]
            /\ apiKey' = << >>
            /\ apiSecret' = << >>
            /\ isConfigured' = FALSE
            /\ configError' = NoConfigError
       ELSE UNCHANGED <<storage, apiKey, apiSecret, isConfigured, configError>>
    /\ UNCHANGED <<variant, sessionVars, appVars, fetchVars, testVars, normVars, csvVars, dateVars,
                   isTesting, pending, sent>>

\* resetConfig, with the answer given to window.confirm
ResetConfig(confirmed) ==
    /\ isConfigured
    /\ IF confirmed
       THEN /\ storage' = EmptyStorage
            /\ apiKey' = << >>
            /\ apiSecret' = << >>
            /\ isConfigured' = FALSE
            /\ configError' = NoConfigError
       ELSE UNCHANGED <<storage, apiKey, apiSecret, isConfigured, configError>>
    /\ UNCHANGED <<variant, sessionVars, appVars, fetchVars, testVars, normVars, csvVars, dateVars,
                   isTesting, pending, sent>>

\* the page is loaded again: the components mount afresh, localStorage stays
Reload ==
    /\ Mounted(storage)
    /\ appState' = "IDLE" /\ transcripts' = << >> /\ count' = 0 /\ error' = NoErrorText
    /\ pending' = NoPending
    /\ sent' = NoneSent
    /\ UNCHANGED <<variant, sessionVars, fetchVars, testVars, normVars, csvVars, dateVars, storage>>

BuilderNext ==
    \/ \E k \in KeyStrings : SetApiKey(k)
    \/ \E k \in KeyStrings : SetApiSecret(k)
    \/ HandleTestAndSave
    \/ TestAndSaveResolved
    \/ \E msg \in {"", InvalidCredentials(401)} : TestAndSaveRejected(msg)
    \/ HandleRunExtraction
    \/ \E ok \in BOOLEAN : ExtractionSettled(ok)
    \/ \E confirmed \in BOOLEAN : ResetConfig(confirmed)
    \/ Reload

----------------------------------------------------------------------------
(* Two invocations of fetchJustCallTranscripts (src/services/justcall.ts   *)
(* 78-166) running side by side.  Everything the function works on is      *)
(* declared inside it, so each invocation has its own page, hasMore,       *)
(* useFallback and allTranscripts; a step of the model is the code of one  *)
(* invocation between two of its awaits.                                   *)

SessionIds == {1, 2}

\* how many records upstream holds for the date range of an invocation
SessionTotals == {0, 1, PER_PAGE, PER_PAGE + 1}

\* the records of the two date ranges are different records
SessionCall(i, k) == UpstreamCall((i - 1) * 1000 + k)

\* the response to the request of invocation i for page p
SessionPage(i, total, p) ==
    [k \in 1..Len(PageCalls(total, p)) |-> SessionCall(i, (p - 1) * PER_PAGE + k)]

IdleSession(total) ==
    [pc |-> "idle", total |-> total, page |-> 1, hasMore |-> TRUE, useFallback |-> FALSE,
     allTranscripts |-> << >>, progress |-> << >>, returned |-> << >>, thrown |-> "",
     overlapped |-> FALSE]

InFlight(s) == s.pc \in {"detect", "request", "sleep"}

\* variant of the push in which the list is one list of the module
PushOnSharedList(ss, i, records) ==
    [j \in DOMAIN ss |-> [ss[j] EXCEPT !.allTranscripts = @ \o records]]

\* allTranscripts.push(...) for every record of a page, in invocation i
PushOnOwnList(ss, i, records) ==
    [ss EXCEPT ![i].allTranscripts = @ \o records]

\* the call: the locals are set up and the probe of step 1 is issued
SessionStart(i) ==
    /\ sessions[i].pc = "idle"
    /\ sessions' = [sessions EXCEPT ![i].pc = "detect"]
    /\ UNCHANGED <<variant, appVars, fetchVars, testVars, normVars, csvVars, dateVars,
                   builderVars>>

\* the probe of step 1 settles and the first page is requested
SessionDetect(i, ok, err) ==
    /\ sessions[i].pc = "detect"
    /\ sessions' = [sessions EXCEPT ![i].pc = "request",
                                    ![i].useFallback = (~ok /\ ShouldFallback(err))]
    /\ UNCHANGED <<variant, appVars, fetchVars, testVars, normVars, csvVars, dateVars,
                   builderVars>>

\* a page request of invocation i resolves: the loop body up to the next await
SessionPageSuccess(i, shape) ==
    /\ sessions[i].pc = "request"
    /\ LET s      == sessions[i]
           calls  == ExtractCalls(variant, shape, SessionPage(i, s.total, s.page)).calls
           pushed == PushOnOwnList(sessions, i, NormalizeAll(calls).records)
           acc    == pushed[i].allTranscripts
           other  == \E j \in SessionIds \ {i} : InFlight(sessions[j])
       IN  IF Len(calls) = 0
           THEN sessions' = [sessions EXCEPT ![i].pc = "resolved", ![i].hasMore = FALSE,
                                             ![i].returned = s.allTranscripts,
                                             ![i].overlapped = @ \/ other]
           ELSE IF IsLastPage(Len(calls))
           THEN sessions' = [pushed EXCEPT ![i].pc = "resolved", ![i].hasMore = FALSE,
                                           ![i].progress = Append(@, OnProgressArg(acc, calls)),
                                           ![i].returned = acc,
                                           ![i].overlapped = @ \/ other]
           ELSE sessions' = [pushed EXCEPT ![i].pc = "sleep", ![i].page = @ + 1,
                                           ![i].progress = Append(@, OnProgressArg(acc, calls)),
                                           ![i].overlapped = @ \/ other]
    /\ UNCHANGED <<variant, appVars, fetchVars, testVars, normVars, csvVars, dateVars,
                   builderVars>>

\* a page request of invocation i fails: the catch block throws
SessionPageFailure(i, err) ==
    /\ sessions[i].pc = "request"
    /\ sessions' = [sessions EXCEPT ![i].pc = "rejected",
                                    ![i].thrown = FetchErrorMessage(variant, err)]
    /\ UNCHANGED <<variant, appVars, fetchVars, testVars, normVars, csvVars, dateVars,
                   builderVars>>

\* await sleep(500) ends
SessionSleepElapsed(i) ==
    /\ sessions[i].pc = "sleep"
    /\ sessions' = [sessions EXCEPT ![i].pc = "request"]
    /\ UNCHANGED <<variant, appVars, fetchVars, testVars, normVars, csvVars, dateVars,
                   builderVars>>

SessionNext ==
    \E i \in SessionIds :
        \/ SessionStart(i)
        \/ \E ok \in BOOLEAN : \E err \in {NetworkError, HttpError(500)} : SessionDetect(i, ok, err)
        \/ \E shape \in {"wrapped", "bare"} : SessionPageSuccess(i, shape)
        \/ \E err \in {NetworkError, HttpError(429)} : SessionPageFailure(i, err)
        \/ SessionSleepElapsed(i)

----------------------------------------------------------------------------
InitApp ==
    appState = "IDLE" /\ transcripts = << >> /\ count = 0 /\ error = NoErrorText

InitFetch ==
    /\ pc = "idle" /\ page = 1 /\ hasMore = TRUE /\ useFallback = FALSE
    /\ activeStrategy = "LOCAL" /\ proxyIndex = 1 /\ lastError = NoError
    /\ allTranscripts = << >> /\ inflight = NoRequest
    /\ events = << >> /\ queries = << >> /\ returned = << >> /\ thrown = ""

InitTest ==
    /\ tpc = "idle" /\ tInflight = NoRequest /\ tProxyIndex = 1 /\ tLastError = NoError
    /\ tEvents = << >> /\ tResult = FALSE /\ tThrown = ""

InitNorm == call = EmptyCall /\ normalized = NotNormalized

InitCsv == csvData = << >> /\ csvText = << >>

\* the ExtractorBuilder before anything was saved
InitBuilder ==
    /\ apiKey = << >> /\ apiSecret = << >> /\ isConfigured = FALSE /\ isTesting = FALSE
    /\ configError = NoConfigError /\ storage = EmptyStorage
    /\ pending = NoPending /\ sent = NoneSent

\* no invocation of the side-by-side pair has been made
InitSessions == sessions = [i \in SessionIds |-> IdleSession(0)]

\* the initial values of the two date inputs' state (the end date is today's)
InitDates ==
    /\ startDate = DateString(2024, 1, 1) /\ endDate = DateString(2024, 11, 3)
    /\ startUnix = NotComputed /\ endUnix = NotComputed

\* the App with a fetch: the build and what upstream holds are fixed per run
Init ==
    /\ variant \in Variants
    /\ upstreamTotal \in UpstreamTotals
    /\ InitApp /\ InitFetch /\ InitTest /\ InitNorm /\ InitCsv /\ InitDates /\ InitBuilder /\ InitSessions

Next == FetchNext

Spec == Init /\ [][Next]_vars

\* testConnection calls, in each build
InitOfTest ==
    /\ variant \in Variants
    /\ upstreamTotal = 0
    /\ InitApp /\ InitFetch /\ InitTest /\ InitNorm /\ InitCsv /\ InitDates /\ InitBuilder /\ InitSessions

SpecTest == InitOfTest /\ [][TestNext]_vars

\* normalization of one element drawn from RawCalls
InitOfNorm ==
    /\ variant = "LocalThenPublic"
    /\ upstreamTotal = 0
    /\ InitApp /\ InitFetch /\ InitTest /\ InitCsv /\ InitDates /\ InitBuilder /\ InitSessions
    /\ call \in RawCalls /\ normalized = NotNormalized

SpecNorm == InitOfNorm /\ [][NormNext]_vars

\* serialization of a record list drawn from CsvInputs
InitOfCsv ==
    /\ variant = "LocalThenPublic"
    /\ upstreamTotal = 0
    /\ InitApp /\ InitFetch /\ InitTest /\ InitNorm /\ InitDates /\ InitBuilder /\ InitSessions
    /\ csvData \in CsvInputs /\ csvText = << >>

SpecCsv == InitOfCsv /\ [][CsvNext]_vars

----------------------------------------------------------------------------
(* The two catch blocks side by side: the same failure reaches the catch   *)
(* of testConnection (as the failure of candidate tProxyIndex) and the     *)
(* catch of the page loop.                                                 *)

\* the catch block of the page loop on the failure held in lastError
FetchCatch ==
    /\ pc = "idle"
    /\ Reject(lastError)
    /\ UNCHANGED <<variant, sessionVars, count, page, hasMore, useFallback, activeStrategy, proxyIndex,
                   lastError, allTranscripts, upstreamTotal, events, queries,
                   testVars, normVars, csvVars, dateVars, builderVars>>

\* the catch block of testConnection on the failure held in tLastError, where
\* it ends the call
TestCatch ==
    /\ tpc = "idle"
    /\ ~TestOnFailure(variant, tProxyIndex, tLastError).next
    /\ tpc' = "rejected"
    /\ tThrown' = TestOnFailure(variant, tProxyIndex, tLastError).message
    /\ UNCHANGED <<variant, sessionVars, appVars, fetchVars, tInflight, tProxyIndex, tLastError,
                   tEvents, tResult, normVars, csvVars, dateVars, builderVars>>

ClassifyNext == FetchCatch \/ TestCatch

InitOfClassify ==
    /\ variant \in Variants
    /\ upstreamTotal = 0
    /\ InitApp /\ InitNorm /\ InitCsv /\ InitDates /\ InitBuilder /\ InitSessions
    /\ pc = "idle" /\ page = 1 /\ hasMore = TRUE /\ useFallback = FALSE
    /\ activeStrategy = "LOCAL" /\ proxyIndex = 1
    /\ allTranscripts = << >> /\ inflight = NoRequest
    /\ events = << >> /\ queries = << >> /\ returned = << >> /\ thrown = ""
    /\ tpc = "idle" /\ tInflight = NoRequest
    /\ tEvents = << >> /\ tResult = FALSE /\ tThrown = ""
    /\ lastError \in AxiosErrors
    /\ tLastError = lastError
    /\ tProxyIndex \in 1..Len(TestCandidates(variant))

SpecClassify == InitOfClassify /\ [][ClassifyNext]_vars

\* the date range of a fetch, for the dates of SampleDates
InitOfDates ==
    /\ variant = "LocalThenPublic"
    /\ upstreamTotal = 0
    /\ InitApp /\ InitFetch /\ InitTest /\ InitNorm /\ InitCsv
    /\ startDate \in SampleDates /\ endDate \in SampleDates
    /\ startUnix = NotComputed /\ endUnix = NotComputed
    /\ InitBuilder /\ InitSessions

SpecDates == InitOfDates /\ [][DateNext]_vars

\* the ExtractorBuilder in front of each build of the service, from a first
\* visit (nothing saved)
InitOfBuilder ==
    /\ variant \in Variants
    /\ upstreamTotal = 0
    /\ InitApp /\ InitFetch /\ InitTest /\ InitNorm /\ InitCsv /\ InitDates /\ InitBuilder /\ InitSessions

SpecBuilder == InitOfBuilder /\ [][BuilderNext]_vars

\* the App with a fetch while the user goes on editing the two date inputs
PagingNext ==
    \/ FetchNext
    \/ SetStartDate(DateString(2024, 3, 1))
    \/ SetEndDate(DateString(2024, 3, 10))

InitOfPaging ==
    /\ variant \in Variants
    /\ upstreamTotal \in {1, PER_PAGE, 2 * PER_PAGE + 1}
    /\ InitApp /\ InitFetch /\ InitTest /\ InitNorm /\ InitCsv /\ InitDates /\ InitBuilder /\ InitSessions

SpecPaging == InitOfPaging /\ [][PagingNext]_vars

\* the App with its export button: fetches, and clicks on Export CSV
DownloadNext == FetchNext \/ HandleDownload

InitOfDownload ==
    /\ variant \in Variants
    /\ upstreamTotal \in {0, 1, PER_PAGE + 1}
    /\ InitApp /\ InitFetch /\ InitTest /\ InitNorm /\ InitCsv /\ InitDates /\ InitBuilder /\ InitSessions

SpecDownload == InitOfDownload /\ [][DownloadNext]_vars

\* an upstream that answers every page the model follows with PER_PAGE records
EndlessTotal == (MaxPage + 1) * PER_PAGE

Endless == upstreamTotal = EndlessTotal

\* the fetch against an upstream that runs out of records or fails at some page
FiniteUpstreamStep == ~Endless /\ FetchNext

\* the fetch against an upstream that answers every page with a full page of
\* records and never with a failure
EndlessUpstreamStep ==
    /\ Endless
    /\ page <= MaxPage \/ pc = "sleep"
    /\ \/ HandleFetchRequest
       \/ \E err \in AxiosErrors : DetectLocal(FALSE, err)
       \/ DetectLocal(TRUE, NoError)
       \/ \E err \in AxiosErrors : DetectProxy(FALSE, err)
       \/ DetectProxy(TRUE, NoError)
       \/ \E shape \in {"wrapped", "bare"} : PageSuccess(shape)
       \/ SleepElapsed

TerminationNext == FiniteUpstreamStep \/ EndlessUpstreamStep

InitOfTermination ==
    /\ variant \in Variants
    /\ upstreamTotal \in {0, PER_PAGE - 1, PER_PAGE, PER_PAGE + 1, EndlessTotal}
    /\ InitApp /\ InitFetch /\ InitTest /\ InitNorm /\ InitCsv /\ InitDates /\ InitBuilder /\ InitSessions

\* every await settles: a step that can be taken is taken
SpecTermination == InitOfTermination /\ [][TerminationNext]_vars /\ WF_vars(TerminationNext)

\* the App with a fetch in which every await settles: a step that can be
\* taken is taken
SpecFair == Init /\ [][Next]_vars /\ WF_vars(Next)

\* two invocations of the primary build's fetchJustCallTranscripts, each with
\* its own date range
InitOfSessions ==
    /\ variant = "LocalThenPublic"
    /\ upstreamTotal = 0
    /\ InitApp /\ InitFetch /\ InitTest /\ InitNorm /\ InitCsv /\ InitDates /\ InitBuilder
    /\ sessions \in [SessionIds -> {IdleSession(t) : t \in SessionTotals}]

SpecSessions == InitOfSessions /\ [][SessionNext]_vars

----------------------------------------------------------------------------
(* Properties of the fetch, read off the history of the invocation        *)

IsProgress(x)     == x.e = "progress"
IsPageResponse(x) == x.e = "response" /\ x.what # "probe"
IsPageRequest(x)  == x.e = "request" /\ x.what = "page"
IsPageFailure(x)  == x.e = "failure" /\ x.what = "page"

ProgressCalls == SelectSeq(events, IsProgress)
PageResponses == SelectSeq(events, IsPageResponse)

\* every page response carried an array of records
UpstreamServedArrays == \A i \in 1..Len(PageResponses) : PageResponses[i].what = "array"

StrictlyIncreasing(seq) == \A i \in 1..(Len(seq) - 1) : seq[i].n < seq[i + 1].n

FullPages == upstreamTotal \div PER_PAGE
Remainder == upstreamTotal % PER_PAGE

\* C1 as stated: against an upstream of k full pages and a final page of r < 50
\* records the fetch returns 50k + r records and calls onProgress exactly k+1
\* times with strictly increasing totals, r = 0 included.
C1_AsStated ==
    (pc = "resolved" /\ UpstreamServedArrays) =>
        /\ Len(returned) = PER_PAGE * FullPages + Remainder
        /\ Len(ProgressCalls) = FullPages + 1
        /\ StrictlyIncreasing(ProgressCalls)

\* C1 amended: the fetch returns 50k + r records; onProgress is called k+1 times
\* when r > 0 and k times when r = 0 (the empty final page reports nothing), the
\* totals strictly increasing and ending at 50k + r.
C1_PaginationTotals ==
    (pc = "resolved" /\ UpstreamServedArrays) =>
        /\ Len(returned) = PER_PAGE * FullPages + Remainder
        /\ Len(ProgressCalls) = FullPages + (IF Remainder > 0 THEN 1 ELSE 0)
        /\ StrictlyIncreasing(ProgressCalls)
        /\ \A i \in 1..Len(ProgressCalls) :
              ProgressCalls[i].n = Min(i * PER_PAGE, upstreamTotal)

\* a fetch over one full page and an empty final page has returned
C1_Witness ==
    /\ pc = "resolved" /\ UpstreamServedArrays
    /\ upstreamTotal = PER_PAGE
    /\ Len(returned) = PER_PAGE
    /\ Len(PageResponses) = 2
    /\ Len(ProgressCalls) = 1

\* some page request failed after onProgress had reported at least one page
FailedAfterProgress ==
    \E i \in 1..Len(events) :
        /\ IsPageFailure(events[i])
        /\ \E j \in 1..(i - 1) : IsProgress(events[j])

\* C2: a page request that fails after pages were fetched and reported makes the
\* fetch reject with an error and return no records, and leaves the App in
\* ERROR with an empty transcript list.
C2_FailsAtomically ==
    FailedAfterProgress =>
        /\ pc = "rejected"
        /\ thrown # ""
        /\ returned = << >>
        /\ appState = "ERROR"
        /\ transcripts = << >>
        /\ error = thrown

C2_Witness ==
    /\ FailedAfterProgress
    /\ Len(allTranscripts) = 2 * PER_PAGE
    /\ count = 2 * PER_PAGE
    /\ appState = "ERROR"

\* C4: the page loop stops at the first page with fewer than 50 records (an empty
\* one included): no page request follows such a response, and page p+1 is
\* requested only after page p returned a full page of 50.
C4_StopsAtShortPage ==
    /\ \A i \in 1..Len(events) :
          (IsPageResponse(events[i]) /\ events[i].n < PER_PAGE) =>
              \A j \in (i + 1)..Len(events) : ~IsPageRequest(events[j])
    /\ \A j \in 1..Len(events) :
          (IsPageRequest(events[j]) /\ events[j].page > 1) =>
              \E i \in 1..(j - 1) :
                  /\ IsPageResponse(events[i])
                  /\ events[i].page = events[j].page - 1
                  /\ events[i].n = PER_PAGE

\* page 3 was requested after two full pages and answered with a short page
C4_Witness ==
    /\ pc = "resolved"
    /\ \E j \in 1..Len(events) : IsPageRequest(events[j]) /\ events[j].page = 3
    /\ PageResponses[Len(PageResponses)].n \in 1..(PER_PAGE - 1)

\* the number of records received up to and including history entry i
ReceivedUpTo(i) ==
    LET upto == SelectSeq(SubSeq(events, 1, i), IsPageResponse)
        Sum[k \in 0..Len(upto)] == IF k = 0 THEN 0 ELSE Sum[k - 1] + upto[k].n
    IN  Sum[Len(upto)]

\* C5 as stated: onProgress fires exactly once for every page response received
\* (a page of call records), right after the page's records are appended, with
\* the accumulated count.
C5_AsStated ==
    \A i \in 1..Len(events) :
        (IsPageResponse(events[i]) /\ events[i].what # "badarray") =>
            /\ i < Len(events)
            /\ IsProgress(events[i + 1])
            /\ events[i + 1].n = ReceivedUpTo(i)

\* C5 amended: onProgress fires exactly once for every page response that is an
\* array of call records and holds at least one: right after the page's records are appended and before
\* any further request, with the number of records accumulated so far; a page
\* without records reports nothing.
C5_ProgressPerNonEmptyPage ==
    /\ \A i \in 1..Len(events) :
          (IsPageResponse(events[i]) /\ events[i].what = "array" /\ events[i].n > 0) =>
              /\ i < Len(events)
              /\ IsProgress(events[i + 1])
              /\ events[i + 1].n = ReceivedUpTo(i)
    /\ \A i \in 1..Len(events) :
          IsProgress(events[i]) =>
              /\ i > 1
              /\ IsPageResponse(events[i - 1]) /\ events[i - 1].n > 0
              /\ events[i].n = ReceivedUpTo(i)
    /\ (ProgressCalls # << >> /\ pc # "idle") =>
          /\ count = ProgressCalls[Len(ProgressCalls)].n
          /\ pc # "rejected" => count = Len(allTranscripts)

\* two pages were reported and the third request is in flight
C5_Witness ==
    /\ pc = "request"
    /\ inflight.page = 3
    /\ Len(ProgressCalls) = 2
    /\ count = 2 * PER_PAGE

\* page 1 came back without records (an empty array or a payload with no array)
PageOneEmpty ==
    \E i \in 1..Len(events) :
        /\ IsPageResponse(events[i])
        /\ events[i].page = 1 /\ events[i].n = 0 /\ events[i].what # "null"

\* C9: when page 1 returns zero records the fetch does not throw: it resolves
\* with an empty list, the App ends in COMPLETE showing the no-data hint, and a
\* failed fetch is told apart from it by state ERROR and a different message.
C9_EmptyRangeIsNotAnError ==
    /\ PageOneEmpty =>
          /\ pc = "resolved" /\ thrown = "" /\ returned = << >>
          /\ appState = "COMPLETE" /\ transcripts = << >>
          /\ error = NoDataHint
    /\ pc = "rejected" => (appState = "ERROR" /\ error # NoDataHint /\ error # NoErrorText)

C9_Witness ==
    /\ PageOneEmpty
    /\ upstreamTotal = 0
    /\ appState = "COMPLETE"
    /\ error = NoDataHint

\* the builds whose fetch starts with a strategy detection
SelectsStrategy == variant \in {"LocalThenPublic", "LocalThenFallbacks"}

\* C10 as stated: a page request is only ever issued through a strategy whose
\* probe returned a successful response (and a selection in which every probe
\* failed issues no page request at all).
C10_AsStated ==
    SelectsStrategy =>
        \A j \in 1..Len(events) :
            IsPageRequest(events[j]) =>
                \E i \in 1..(j - 1) :
                    /\ events[i].e = "response" /\ events[i].what = "probe"
                    /\ events[i].via = events[j].via

----------------------------------------------------------------------------
(* Properties of testConnection, read off the history of the call         *)

IsProbeFailure(x) == x.e = "failure"
IsAuthStatus(x)   == x.n \in {401, 403}
\* the relay-not-found and network-failure signatures
IsTransportSignature(x) == x.n = 404 \/ x.what = "ERR_NETWORK"

AuthRejectedMessages ==
    {InvalidCredentials(401), InvalidCredentials(403),
     "AUTH ERROR: Your API Key or Secret is incorrect.",
     "Access Denied (403). Check API Keys or IP Whitelist."}

\* the position of a relay in the candidate list of the build
CandidateIndex(via) ==
    CHOOSE i \in 1..Len(TestCandidates(variant)) : TestCandidates(variant)[i] = via

HasNextCandidate(via) == CandidateIndex(via) < Len(TestCandidates(variant))

\* history entry i + 1 is the probe of the candidate after the one of entry i
NextCandidateProbed(i) ==
    /\ i < Len(tEvents)
    /\ tEvents[i + 1].e = "request"
    /\ tEvents[i + 1].via = TestCandidates(variant)[CandidateIndex(tEvents[i].via) + 1]

\* entry i ended the selection with an authentication-rejected error
EndedAsAuthRejected(i) ==
    /\ i = Len(tEvents)
    /\ tpc = "rejected"
    /\ tThrown \in AuthRejectedMessages

----------------------------------------------------------------------------
(* Properties of normalization                                             *)

Populated(x) == x.t \notin {"undefined", "null"}

\* a source field counts as absent when it is missing, null or falsy
\* ("", 0, NaN, false): the fallback literal then takes its place
Absent(x) ==
    \/ x.t \in {"undefined", "null"}
    \/ x.t = "string" /\ x.v = ""
    \/ x.t = "number" /\ x.v \in {"0", "NaN"}
    \/ x.t = "boolean" /\ x.v = "false"

NormalizedObject == normalized.done /\ call.self = "object"

NestedCandidate(parent) ==
    IF parent.t = "object" THEN [t |-> parent.pt, v |-> parent.pv]
    ELSE [t |-> "undefined", v |-> ""]

Candidates(c) ==
    << [t |-> c.iq_transcript.t, v |-> c.iq_transcript.v],
       [t |-> c.call_transcription.t, v |-> c.call_transcription.v],
       [t |-> c.transcription.t, v |-> c.transcription.v],
       NestedCandidate(c.extra_details),
       NestedCandidate(c.justcall_iq) >>

\* C7: the transcript of a normalized record is the first non-empty value among
\* iq_transcript, call_transcription, transcription, extra_details.transcript
\* and justcall_iq.transcript, in this order, and "[No Transcript Found]" when
\* none is present; iq_transcript "A" with call_transcription "B" gives "A".
C7_TranscriptFallbackOrder ==
    NormalizedObject =>
        LET cand == Candidates(call)
        IN  /\ \A i \in 1..Len(cand) :
                  (~Absent(cand[i]) /\ \A j \in 1..(i - 1) : Absent(cand[j]))
                      => /\ normalized.record.transcript.v = cand[i].v
                         /\ normalized.record.transcript.t = "string"
            /\ (\A i \in 1..Len(cand) : Absent(cand[i]))
                  => normalized.record.transcript = Str("[No Transcript Found]")
            /\ (call.iq_transcript = Str("A") /\ call.call_transcription = Str("B"))
                  => normalized.record.transcript = Str("A")

\* a record holding both iq_transcript "A" and call_transcription "B" was normalized
C7_Witness ==
    /\ NormalizedObject
    /\ call.iq_transcript = Str("A")
    /\ call.call_transcription = Str("B")
    /\ call.transcription = Str("C")
    /\ normalized.record.transcript = Str("A")

----------------------------------------------------------------------------
(* Properties of the CSV export.  ParseCsv is the reader of RFC 4180: a    *)
(* field that starts with a quote runs to its closing quote, a doubled     *)
(* quote inside it standing for one quote; commas separate the fields of a *)
(* row and line breaks outside quoted fields separate the rows.            *)

RECURSIVE ParseFrom(_, _, _, _, _, _)
\* rows: the rows read so far; row: the fields of the current row; field: the
\* current field; mode: "start", "plain", "quoted" or "closing"
ParseFrom(text, i, rows, row, field, mode) ==
    IF i > Len(text) THEN Append(rows, Append(row, field))
    ELSE LET c == text[i] IN
         CASE mode = "quoted" /\ c = QUOTE -> ParseFrom(text, i + 1, rows, row, field, "closing")
           [] mode = "quoted" /\ c # QUOTE ->
                ParseFrom(text, i + 1, rows, row, Append(field, c), "quoted")
           [] mode = "closing" /\ c = QUOTE ->
                ParseFrom(text, i + 1, rows, row, Append(field, QUOTE), "quoted")
           [] mode = "start" /\ c = QUOTE -> ParseFrom(text, i + 1, rows, row, field, "quoted")
           [] mode # "quoted" /\ c = COMMA ->
                ParseFrom(text, i + 1, rows, Append(row, field), << >>, "start")
           [] mode # "quoted" /\ c = NEWLINE ->
                ParseFrom(text, i + 1, Append(rows, Append(row, field)), << >>, << >>, "start")
           [] OTHER -> ParseFrom(text, i + 1, rows, row, Append(field, c), "plain")

ParseCsv(text) == ParseFrom(text, 1, << >>, << >>, << >>, "start")

\* no field other than the transcript holds a comma, a quote or a line break
\* (the serializer's documented limitation)
OtherFieldsPlain(row) ==
    \A f \in DOMAIN row \ {"transcript"} :
        \A k \in 1..Len(row[f]) : row[f][k] \notin {QUOTE, COMMA, NEWLINE}

Exported == csvText # << >>

\* C8: convertToCSV followed by a standard CSV parse gives back the transcript
\* of every record (the other fields holding no delimiter): the transcript is
\* written in double quotes with every inner quote doubled, He said "hi"
\* becoming "He said ""hi""", and parsing the text reconstructs it.
C8_CsvRoundTrip ==
    (Exported /\ \A i \in 1..Len(csvData) : OtherFieldsPlain(csvData[i])) =>
        LET parsed == ParseCsv(csvText)
        IN  /\ Len(parsed) = Len(csvData) + 1
            /\ \A i \in 1..Len(csvData) :
                  /\ Len(parsed[i + 1]) = Len(CSV_HEADERS)
                  /\ parsed[i + 1][7] = csvData[i].transcript
            /\ csvData = <<PlainRecord(HeSaidHi)>> =>
                  csvText = Join(CSV_HEADERS, <<COMMA>>) \o <<NEWLINE>> \o
                            <<"1", COMMA, "2024-01-01 10:00:00", COMMA, "+15550001", COMMA,
                              "+15550002", COMMA, "Incoming", COMMA, "42", COMMA,
                              QUOTE, "He said ", QUOTE, QUOTE, "hi", QUOTE, QUOTE, QUOTE,
                              COMMA, "https://rec/1">>

\* a transcript with two quotes, a comma and a line break among its characters
\* was exported and read back
C8_Witness ==
    /\ Exported
    /\ Len(csvData) = 2
    /\ csvData[1].transcript = <<QUOTE, NEWLINE, QUOTE>>
    /\ csvData[2].transcript = <<COMMA>>
    /\ ParseCsv(csvText)[2][7] = <<QUOTE, NEWLINE, QUOTE>>

----------------------------------------------------------------------------
(* Properties of the strategy selection at the start of a fetch           *)

IsProbeEvent(x) == x.what = "probe"

FetchAuthRejectedMessages ==
    AuthRejectedMessages \cup
    {"Authentication Failed (401). Please check API Credentials.",
     "Authentication Failed (403). Please check API Credentials."}

\* C11 as stated: a probe of the fetch's own strategy selection that is answered
\* with 401 or 403 aborts the selection at once: no other strategy is probed,
\* no page request is issued, and the fetch fails with an
\* authentication-rejected error.
C11_AsStated ==
    SelectsStrategy =>
        \A i \in 1..Len(events) :
            (events[i].e = "failure" /\ IsProbeEvent(events[i]) /\ IsAuthStatus(events[i])) =>
                /\ i = Len(events)
                /\ pc = "rejected"
                /\ thrown \in FetchAuthRejectedMessages

PageRequestEvents == SelectSeq(events, IsPageRequest)

\* C12 as stated: every page request of one fetch goes through the same
\* strategy (the same relay or endpoint); it does not change from page p to
\* page p+1.
C12_AsStated ==
    \A i, j \in 1..Len(PageRequestEvents) :
        PageRequestEvents[i].via = PageRequestEvents[j].via

\* C12 amended: in the builds that select a strategy (and in the strict local
\* build, which has one) every page request of a fetch goes through the same
\* endpoint, the one the selection left in useFallback / activeStrategy.  The
\* failover build selects nothing: the request of every page starts at the
\* first relay of PROXY_SERVICES, and a relay that failed is followed by the
\* next relay for the same page, so that two pages of one fetch can be served
\* by different relays.
C12_StrategyFixedPerFetch ==
    IF variant # "Failover"
    THEN \A i \in 1..Len(PageRequestEvents) :
            /\ PageRequestEvents[i].via = PageRequestEvents[1].via
            /\ PageRequestEvents[i].via =
                  PageRequest(variant, useFallback, activeStrategy, 1, 1).via
    ELSE \A i \in 1..Len(events) :
            IsPageRequest(events[i]) =>
                IF i > 1 /\ events[i - 1].e = "relayfailure"
                THEN /\ events[i].page = events[i - 1].page
                     /\ \E k \in 1..(Len(PROXY_SERVICES) - 1) :
                           /\ events[i - 1].via = PROXY_SERVICES[k]
                           /\ events[i].via = PROXY_SERVICES[k + 1]
                ELSE events[i].via = PROXY_SERVICES[1]

\* the fallback was selected and the third page is requested through it
C12_Witness ==
    /\ variant = "LocalThenPublic"
    /\ useFallback
    /\ pc = "request"
    /\ Len(PageRequestEvents) = 3
    /\ PageRequestEvents[3].page = 3
    /\ PageRequestEvents[3].via = "corsproxy"

----------------------------------------------------------------------------
(* Properties of the error classification                                  *)

\* the category the classification table gives a failure
ExpectedCategory(err) ==
    CASE err.status \in {401, 403}          -> "auth_rejected"
      [] err.status = 429                   -> "rate_limit"
      [] err.status = 404 \/ err.status = 0 -> "transport"
      [] OTHER                              -> "upstream"

RateLimitMessages ==
    {"Rate Limit Exceeded. Please try a smaller date range.",
     "RATE LIMIT: You are testing too often. Wait 1 minute."}

TransportMessages ==
    {"Network Error: Proxies were blocked. Please check your internet connection or disable ad-blockers.",
     "Network Error: Proxies blocked. Please disable AdBlockers/Privacy extensions for this page.",
     "PROXY ERROR (404): The server doesn't recognize '/justcall-api'. YOU MUST RESTART THE SERVER (Ctrl+C then 'npm run dev').",
     "PROXY STOPPED: Please restart the server.",
     "NETWORK ERROR: Browser blocked the request. Ensure you are on the correct preview URL.",
     "Connection failed. Could not reach JustCall via any proxy. Please check your internet connection.",
     NetworkError.message, TimeoutError.message}

\* messages that carry the upstream status
UpstreamMessages ==
    UNION {{"API Error (" \o ToString(s) \o "): " \o HttpError(s).body,
            "Server Error: " \o ToString(s),
            HttpError(s).message} : s \in HttpStatuses}

\* the category a thrown message tells the user
CategoryOf(msg) ==
    CASE msg \in FetchAuthRejectedMessages -> "auth_rejected"
      [] msg \in RateLimitMessages         -> "rate_limit"
      [] msg \in TransportMessages         -> "transport"
      [] msg \in UpstreamMessages          -> "upstream"
      [] OTHER                             -> "unclassified"

\* C13 as stated: a failed request is classified by its status into exactly one
\* of four categories: 401 or 403 authentication rejected, 429 rate limit
\* exceeded, a relay's 404 or a failure without HTTP response transport or relay
\* unavailable, any other status a generic upstream error carrying the status.
C13_AsStated ==
    (pc = "rejected" /\ lastError # NoError) =>
        CategoryOf(thrown) = ExpectedCategory(lastError)

\* C14 as stated: for the same failure, testConnection and the page loop of
\* fetchJustCallTranscripts report the same error category.
C14_AsStated ==
    (pc = "rejected" /\ tpc = "rejected" /\ lastError = tLastError) =>
        CategoryOf(thrown) = CategoryOf(tThrown)

----------------------------------------------------------------------------
(* Properties of the page loop's failure handling and pacing               *)

IsRelayFailure(x) == x.e = "relayfailure"
IsRequest(x) == x.e = "request"

\* C15 as stated: once a page request has failed, with whatever error, the
\* fetch issues no further HTTP request before it rejects: nothing is retried.
C15_AsStated ==
    \A i \in 1..Len(events) :
        (IsPageFailure(events[i]) \/ IsRelayFailure(events[i])) =>
            /\ \A j \in (i + 1)..Len(events) : ~IsRequest(events[j])
            /\ pc = "rejected"

\* C15 amended: the page loop itself retries nothing: the failure that reaches
\* its catch block, whatever its category, makes the fetch reject with no
\* further HTTP request.  In the failover build a page request is the run of
\* fetchWithFailover through PROXY_SERVICES: a relay's failure is followed at
\* once by the request of the same page through the next relay, each relay
\* being tried once per page, and only the failure of the last relay reaches
\* the catch block.
C15_LoopFailurePropagates ==
    /\ \A i \in 1..Len(events) :
          IsPageFailure(events[i]) =>
              /\ i = Len(events)
              /\ pc = "rejected" /\ thrown # "" /\ inflight = NoRequest
              /\ variant = "Failover" => events[i].via = PROXY_SERVICES[Len(PROXY_SERVICES)]
    /\ \A i \in 1..Len(events) :
          IsRelayFailure(events[i]) =>
              /\ variant = "Failover"
              /\ i < Len(events)
              /\ IsPageRequest(events[i + 1])
              /\ events[i + 1].page = events[i].page
              /\ \E k \in 1..(Len(PROXY_SERVICES) - 1) :
                    /\ events[i].via = PROXY_SERVICES[k]
                    /\ events[i + 1].via = PROXY_SERVICES[k + 1]
    /\ pc = "rejected" => ~IsRequest(events[Len(events)])

\* the second page failed with 429 after the first was fetched, with no relay
\* to fall back on
C15_Witness ==
    /\ variant = "StrictLocal"
    /\ pc = "rejected"
    /\ Len(events) > 4
    /\ IsPageFailure(events[Len(events)])
    /\ events[Len(events)].page = 2
    /\ events[Len(events)].n = 429

----------------------------------------------------------------------------
(* Properties of normalization inside the fetch                            *)

\* the last page response carried an array, whatever its elements
LastResponseWasArray ==
    /\ events # << >>
    /\ IsPageResponse(events[Len(events)])
    /\ events[Len(events)].what \in {"array", "badarray"}

\* C16 as stated: normalization is never the cause of a fetch abort: whatever
\* JSON values the elements of a page's array are, null included, the fetch
\* makes one record of each element and does not reject on account of the
\* normalization step.
C16_AsStated ==
    LastResponseWasArray =>
        /\ pc # "rejected"
        /\ Len(allTranscripts) = ReceivedUpTo(Len(events))

----------------------------------------------------------------------------
(* Properties of the layout of the CSV export                              *)

\* the fields of a record in the order of the header
FieldsInHeaderOrder(row) ==
    << row.id, row.datetime, row.from, row.to, row.direction, row.duration,
       row.transcript, row.recording_url >>

\* C17: the output is the header row followed by exactly one row per input
\* record, in input order, the fields of every row in the order Call ID, Date
\* Time, From, To, Direction, Duration, Transcript, Recording URL; for an empty
\* list the output is the header row alone.
C17_CsvLayout ==
    Exported =>
        LET parsed == ParseCsv(csvText)
        IN  /\ Len(parsed) = Len(csvData) + 1
            /\ parsed[1] = CSV_HEADERS
            /\ \A i \in 1..Len(csvData) :
                  OtherFieldsPlain(csvData[i]) =>
                      parsed[i + 1] = FieldsInHeaderOrder(csvData[i])
            /\ csvData = << >> =>
                  csvText = <<"Call ID", COMMA, "Date Time", COMMA, "From", COMMA, "To", COMMA,
                              "Direction", COMMA, "Duration", COMMA, "Transcript", COMMA,
                              "Recording URL">>

\* two records with different transcripts were exported and read back in order
C17_Witness ==
    /\ Exported
    /\ Len(csvData) = 2
    /\ csvData[1].transcript = <<"a", "a">>
    /\ csvData[2].transcript = <<"a">>
    /\ ParseCsv(csvText)[3] = FieldsInHeaderOrder(csvData[2])

----------------------------------------------------------------------------
(* Properties of the date range.  The days a range covers are counted on   *)
(* the calendar, not through the conversion.                               *)

Years == 2023..2024

IsLeapYear(y) == (y % 4 = 0 /\ y % 100 # 0) \/ y % 400 = 0

DaysInMonth(y, m) ==
    CASE m = 2               -> IF IsLeapYear(y) THEN 29 ELSE 28
      [] m \in {4, 6, 9, 11} -> 30
      [] OTHER               -> 31

CalendarDates ==
    UNION {UNION {{DateString(y, m, d) : d \in 1..DaysInMonth(y, m)} : m \in 1..12} : y \in Years}

\* date a is date b or an earlier one
NotAfter(a, b) ==
    \/ a.y < b.y
    \/ a.y = b.y /\ a.m < b.m
    \/ a.y = b.y /\ a.m = b.m /\ a.d <= b.d

\* the number of calendar days from a to b, both counted
DaysCovered(a, b) == Cardinality({x \in CalendarDates : NotAfter(a, x) /\ NotAfter(x, b)})

RangeComputed == startUnix # NotComputed

\* C18: from is midnight (UTC) at the start of startDate and to is midnight at
\* the start of endDate plus 86399, in epoch seconds: startDate = endDate gives
\* an interval exactly 86400 seconds wide counting both endpoints, and for any
\* start <= end the width is 86400 times the number of days covered.
C18_DateRangeWidth ==
    RangeComputed =>
        /\ startUnix % 86400 = 0
        /\ (endUnix - 86399) % 86400 = 0
        /\ startDate = DateString(2024, 1, 1) => startUnix = 1704067200
        /\ endDate = DateString(2024, 1, 1) => endUnix = 1704153599
        /\ startDate = endDate => (endUnix - startUnix) + 1 = 86400
        /\ NotAfter(startDate, endDate) =>
              (endUnix - startUnix) + 1 = 86400 * DaysCovered(startDate, endDate)

\* a range over the leap day: 28 February to 1 March 2024 is three days
C18_Witness ==
    /\ RangeComputed
    /\ startDate = DateString(2024, 2, 28)
    /\ endDate = DateString(2024, 3, 1)
    /\ (endUnix - startUnix) + 1 = 3 * 86400

IsSleep(x) == x.e = "sleep"

\* history entry i + 1 is the outcome of the request of entry i
SettledNext(i) ==
    /\ i < Len(events)
    /\ events[i + 1].e \in {"response", "failure", "relayfailure"}
    /\ events[i + 1].via = events[i].via
    /\ events[i + 1].page = events[i].page

\* entries j-3 .. j-1 are the response to page p, its onProgress and the sleep
AfterPageProcessedAndDelay(j, p) ==
    /\ j > 4
    /\ IsPageRequest(events[j - 4]) /\ events[j - 4].page = p
    /\ IsPageResponse(events[j - 3]) /\ events[j - 3].page = p
    /\ IsProgress(events[j - 2])
    /\ IsSleep(events[j - 1])

\* C19: no two page requests of a fetch are in flight at once: every request
\* is followed by its own outcome before anything else is issued, and the
\* request of page p+1 is issued only after the request of page p has resolved,
\* its records were processed and the inter-page delay has elapsed.  (In the
\* failover build the page request is the run of fetchWithFailover, whose
\* relays are asked one after the other, each after the one before has failed.)
C19_SingleFlight ==
    /\ \A i \in 1..Len(events) :
          IsRequest(events[i]) =>
              IF i = Len(events)
              THEN pc \in {"detect", "detect2", "request"} /\ inflight.via = events[i].via
                   /\ inflight.page = events[i].page
              ELSE SettledNext(i)
    /\ (events # << >> /\ ~IsRequest(events[Len(events)])) => inflight = NoRequest
    /\ \A j \in 1..Len(events) :
          (IsPageRequest(events[j]) /\ j > 1) =>
              CASE IsRelayFailure(events[j - 1]) ->
                     variant = "Failover" /\ events[j].page = events[j - 1].page
                [] events[j].page > 1 ->
                     AfterPageProcessedAndDelay(j, events[j].page - 1)
                [] OTHER -> IsProbeEvent(events[j - 1])

\* page 2 is in flight after page 1 was processed and the delay slept through
C19_Witness ==
    /\ pc = "request"
    /\ inflight.page = 2
    /\ Len(events) > 4
    /\ IsPageRequest(events[Len(events)])
    /\ AfterPageProcessedAndDelay(Len(events), 1)

\* the delay each build awaits between two pages, in ms
InterPageDelay ==
    CASE variant = "Failover"    -> 1000
      [] variant = "StrictLocal" -> 2000
      [] OTHER                   -> 500

\* entry j is the first request of a page after page 1
IsNextPageRequest(j) ==
    /\ IsPageRequest(events[j])
    /\ events[j].page > 1
    /\ ~IsRelayFailure(events[j - 1])

\* C20: a fixed delay is awaited between every two successive page requests:
\* the request of page p+1 comes right after a sleep of the build's delay, which
\* comes right after the onProgress of the full page p; and no delay is awaited
\* after the terminal page (a page with fewer than 50 records, or none): the
\* fetch returns without sleeping.
C20_DelayBetweenPagesOnly ==
    /\ \A j \in 2..Len(events) :
          IsNextPageRequest(j) =>
              /\ IsSleep(events[j - 1])
              /\ events[j - 1].n = InterPageDelay
              /\ events[j - 1].n > 0
    /\ \A i \in 1..Len(events) :
          IsSleep(events[i]) =>
              /\ i > 2
              /\ IsProgress(events[i - 1])
              /\ IsPageResponse(events[i - 2]) /\ events[i - 2].n = PER_PAGE
              /\ IF i = Len(events) THEN pc = "sleep"
                 ELSE IsPageRequest(events[i + 1])
                      /\ events[i + 1].page = events[i - 2].page + 1
    /\ \A i \in 1..Len(events) :
          (IsPageResponse(events[i]) /\ events[i].n < PER_PAGE) =>
              \A k \in (i + 1)..Len(events) : ~IsSleep(events[k])
    /\ pc = "sleep" <=> (events # << >> /\ IsSleep(events[Len(events)]))
    /\ pc = "resolved" => ~IsSleep(events[Len(events)])

\* a fetch of a full page and a short one has returned after exactly one sleep
C20_Witness ==
    /\ pc = "resolved"
    /\ Len(PageResponses) = 2
    /\ PageResponses[2].n \in 1..(PER_PAGE - 1)
    /\ Len(SelectSeq(events, IsSleep)) = 1
    /\ IsProgress(events[Len(events)])

----------------------------------------------------------------------------
(* Properties of the list a fetch returns                                  *)

\* the number of records the page responses of the fetch carried
ReceivedInAll == IF events = << >> THEN 0 ELSE ReceivedUpTo(Len(events))

\* C21: the list a successful fetch returns is the complete ordered sequence:
\* the normalized records of pages 1..n in page order, the order inside each
\* page kept, one output record per raw record, none dropped or duplicated.
C21_CompleteOrderedSequence ==
    pc = "resolved" =>
        /\ Len(returned) = ReceivedInAll
        /\ UpstreamServedArrays => Len(returned) = upstreamTotal
        /\ \A i \in 1..Len(returned) :
              /\ returned[i].id = Num(ToString(i))
              /\ returned[i] = TranscriptDataOf(UpstreamCall(i))
        /\ \A i, j \in 1..Len(returned) : i # j => returned[i].id # returned[j].id
        /\ transcripts = returned

\* two full pages and a last page of two records came back as 102 records
C21_Witness ==
    /\ pc = "resolved"
    /\ Len(PageResponses) = 3
    /\ Len(returned) = 2 * PER_PAGE + 2
    /\ returned[PER_PAGE + 1].id = Num(ToString(PER_PAGE + 1))
    /\ returned[2 * PER_PAGE + 2].id = Num(ToString(2 * PER_PAGE + 2))

----------------------------------------------------------------------------
(* Properties of a probe that succeeds                                     *)

IsProbeResponse(x) == x.e = "response"

\* C22: testConnection reports success whenever a probe receives a successful
\* HTTP response, whatever the body: a response with an empty list or an empty
\* body counts as valid credentials.  (And it reports success in no other case.)
C22_SuccessRegardlessOfBody ==
    /\ \A i \in 1..Len(tEvents) :
          IsProbeResponse(tEvents[i]) =>
              /\ i = Len(tEvents)
              /\ tpc = "resolved" /\ tResult /\ tThrown = ""
    /\ tResult =>
          /\ tEvents # << >>
          /\ IsProbeResponse(tEvents[Len(tEvents)])
          /\ tEvents[Len(tEvents)].what \in ProbeBodies

\* the local proxy answered the probe with an empty body
C22_Witness ==
    /\ tpc = "resolved"
    /\ tResult
    /\ Len(tEvents) = 2
    /\ tEvents[2].via = "local"
    /\ tEvents[2].what = "emptybody"

----------------------------------------------------------------------------
(* Credentials on the wire (C23) *)

Spaces(n) == [i \in 1..n |-> " "]

\* t is raw without its leading and trailing spaces
IsTrimmedFormOf(t, raw) ==
    /\ t = << >> \/ (t[1] # " " /\ t[Len(t)] # " ")
    /\ \E a \in 0..Len(raw) : \E b \in 0..Len(raw) : raw = Spaces(a) \o t \o Spaces(b)

\* C23: the key and the secret in the requests of a testConnection or
\* fetchJustCallTranscripts call are non-empty and carry no leading or
\* trailing whitespace, and when a call starts they are the trimmed form of
\* the two fields of the form; a step that leaves a trimmed field empty
\* starts no call.
C23_TrimmedNonEmptyCredentials ==
    /\ [](sent.by # "none" =>
            /\ sent.key # << >> /\ sent.secret # << >>
            /\ sent.key[1] # " " /\ sent.key[Len(sent.key)] # " "
            /\ sent.secret[1] # " " /\ sent.secret[Len(sent.secret)] # " ")
    /\ [][sent' # sent /\ sent'.by # "none" =>
            /\ IsTrimmedFormOf(sent'.key, apiKey)
            /\ IsTrimmedFormOf(sent'.secret, apiSecret)
            /\ \A raw \in {apiKey, apiSecret} : ~IsTrimmedFormOf(<< >>, raw)]_vars

\* C23 witness: the connection test is out, through the build whose service
\* does not trim, with the key "k" while the form holds " k" and a secret
\* typed with a trailing space
C23_Witness ==
    /\ variant = "Failover"
    /\ sent = [by |-> "testConnection", key |-> <<"k">>, secret |-> <<"k">>]
    /\ apiKey = <<" ", "k">>
    /\ apiSecret = <<"k", " ">>
    /\ isTesting

----------------------------------------------------------------------------
(* Order and number of the probes of one selection (C24) *)

ProbeRequests == SelectSeq(tEvents, IsRequest)

\* the place of a relay in the list of public relays
RelayRank(via) == CHOOSE k \in 1..Len(PROXY_SERVICES) : PROXY_SERVICES[k] = via

\* C24: one selection probes its candidates in a fixed order, the local proxy
\* (where the build has one) first and the public relays after it in list
\* order; every attempt is exactly one request for page 1 with page size 1,
\* issued only after the attempt before it has failed; no candidate is probed
\* twice and a selection over n candidates issues at most n requests.
C24_ProbesInPreferenceOrder ==
    /\ Len(ProbeRequests) <= Len(TestCandidates(variant))
    /\ \A i \in 1..Len(tEvents) :
          IF i % 2 = 1 THEN IsRequest(tEvents[i])
          ELSE /\ tEvents[i].e \in {"failure", "response"}
               /\ tEvents[i].via = tEvents[i - 1].via
               /\ tEvents[i].e = "response" => i = Len(tEvents)
    /\ \A k \in 1..Len(ProbeRequests) :
          /\ ProbeRequests[k].what = "probe"
          /\ ProbeRequests[k].page = 1 /\ ProbeRequests[k].n = 1
          /\ ProbeRequests[k].via = "local" => k = 1
          /\ (k = 1 /\ variant # "Failover") => ProbeRequests[k].via = "local"
    /\ \A j, k \in 1..Len(ProbeRequests) :
          (j < k /\ ProbeRequests[j].via # "local") =>
              RelayRank(ProbeRequests[j].via) < RelayRank(ProbeRequests[k].via)

\* C24 witness: a selection over three candidates has failed on each of them
\* after three probes, the local proxy's first
C24_Witness ==
    /\ variant = "LocalThenFallbacks"
    /\ tpc = "rejected"
    /\ Len(ProbeRequests) = 3
    /\ ProbeRequests[1].via = "local"
    /\ ProbeRequests[3].via = "allorigins"

----------------------------------------------------------------------------
(* Transcript values that are not text (C25) *)

\* the value the lookup resolves to: the first candidate that is present
ResolvedIs(c, x) ==
    \E i \in 1..Len(Candidates(c)) :
        /\ Candidates(c)[i] = x
        /\ ~Absent(x)
        /\ \A j \in 1..(i - 1) : Absent(Candidates(c)[j])

\* C25: when the transcript value found in a record is an object, an array or
\* a number rather than a string, the transcript of the normalized record is
\* the JSON text of that value: it is neither dropped nor replaced by
\* "[No Transcript Found]".
C25_NonTextSerialized ==
    NormalizedObject =>
        \A x \in {[t |-> "object", v |-> "{\"text\":\"D\"}"], [t |-> "object", v |-> "[\"A\"]"],
                  [t |-> "object", v |-> "[\"B\"]"], [t |-> "number", v |-> "7"]} :
            ResolvedIs(call, x) =>
                /\ normalized.record.transcript = Str(x.v)
                /\ normalized.record.transcript # Str(NO_TRANSCRIPT)
                /\ normalized.record.transcript # Undefined

\* C25 witness: a record whose only transcript is the array ["B"] under
\* call_transcription was normalized to the text ["B"]
C25_Witness ==
    /\ NormalizedObject
    /\ call.iq_transcript = Undefined
    /\ call.call_transcription = Obj("[\"B\"]", Undefined)
    /\ normalized.record.transcript = Str("[\"B\"]")

----------------------------------------------------------------------------
(* Two concurrent invocations (C26) *)

\* the normalized records of everything upstream holds for invocation i
OwnRecords(i) ==
    [k \in 1..sessions[i].total |-> NormalizeCall(SessionCall(i, k)).record]

IsPrefixOf(a, b) == Len(a) <= Len(b) /\ a = SubSeq(b, 1, Len(a))

\* C26: with two invocations interleaved at their awaits in any way, each
\* accumulates and returns exactly the records of its own responses in its own
\* page order, none of the other's, and the totals it passes to onProgress
\* count its own records only.
C26_InvocationsIndependent ==
    \A i \in SessionIds :
        LET s == sessions[i]
        IN  /\ IsPrefixOf(s.allTranscripts, OwnRecords(i))
            /\ s.pc = "resolved" => s.returned = OwnRecords(i)
            /\ \A k \in 1..Len(s.progress) : s.progress[k] = Min(k * PER_PAGE, s.total)
            /\ \A j \in SessionIds \ {i} : \A k \in 1..Len(s.allTranscripts) :
                  \A m \in 1..sessions[j].total : s.allTranscripts[k] # OwnRecords(j)[m]

\* C26 witness: both invocations have returned two pages of records and each
\* processed a page while the other was in flight
C26_Witness ==
    \A i \in SessionIds :
        /\ sessions[i].pc = "resolved"
        /\ sessions[i].overlapped
        /\ Len(sessions[i].returned) = PER_PAGE + 1
        /\ sessions[i].progress = <<PER_PAGE, PER_PAGE + 1>>

----------------------------------------------------------------------------
(* Query parameters of the page requests of one fetch (C27) *)

\* the places in the history where the loop sends the request of an iteration
\* (in the failover build the first relay's; a request that follows a relay's
\* failure sends the same request through the next relay)
LoopRequestIdx ==
    {i \in 1..Len(events) :
        IsPageRequest(events[i]) /\ (i = 1 \/ ~IsRelayFailure(events[i - 1]))}

\* C27: within one fetch the page requests carry page = 1, 2, 3, ... in this
\* order, no page skipped and none requested by two iterations; per_page is 50
\* and from and to are the same on every page request of the fetch, whatever
\* happens to the date inputs meanwhile.  (A relay of the failover build that
\* fails is followed by the same request through the next relay.)
C27_PageQueryParameters ==
    /\ \A i \in LoopRequestIdx :
          events[i].page = Cardinality({j \in LoopRequestIdx : j <= i})
    /\ \A i \in 1..Len(events) :
          IsPageRequest(events[i]) =>
              /\ events[i].n = 50
              /\ i \notin LoopRequestIdx => events[i].page = events[i - 1].page
    /\ Len(queries) = Len(PageRequestEvents)
    /\ \A k \in 1..Len(queries) :
          /\ queries[k].page = PageRequestEvents[k].page
          /\ queries[k].per_page = 50
          /\ queries[k].from = queries[1].from
          /\ queries[k].to = queries[1].to

\* C27 witness: a fetch of the failover build has asked for three pages, one
\* of them through a second relay, and both date inputs were changed after
\* the fetch started
C27_Witness ==
    /\ variant = "Failover"
    /\ Cardinality(LoopRequestIdx) = 3
    /\ Len(queries) > 3
    /\ queries[1].from # StartUnixOf(startDate)
    /\ queries[1].to # EndUnixOf(endDate)
    /\ pc = "resolved"

----------------------------------------------------------------------------
(* The accumulator during a fetch (C28) *)

FetchInFlight == pc \in {"detect", "detect2", "request", "sleep"}

\* C28: every step of a fetch in flight leaves the accumulator as it was or
\* appends to it: its length never decreases and the records it holds stay
\* the same records at the same places until the fetch has returned.
C28_AccumulatorAppendOnly ==
    [][FetchInFlight =>
          /\ Len(allTranscripts') >= Len(allTranscripts)
          /\ \A k \in 1..Len(allTranscripts) : allTranscripts'[k] = allTranscripts[k]
          /\ pc' = "resolved" => returned' = allTranscripts']_vars

\* C28 witness: a fetch that appended two full pages is waiting for its
\* third page
C28_Witness ==
    /\ pc = "request"
    /\ page = 3
    /\ Len(allTranscripts) = 2 * PER_PAGE
    /\ allTranscripts[1] # allTranscripts[PER_PAGE + 1]

----------------------------------------------------------------------------
(* One fetch at a time in the App (C29) *)

\* C29: the App has at most one fetch in flight: a fetch starts (its history
\* begins anew) only when appState is not RESEARCHING and no fetch is in
\* flight, appState is RESEARCHING exactly while a fetch is in flight, and
\* every started fetch leaves RESEARCHING, for COMPLETE when it resolved and
\* for ERROR when it rejected, never both.
C29_OneFetchInFlight ==
    /\ [](/\ FetchInFlight <=> appState = "RESEARCHING"
          /\ pc = "resolved" <=> appState = "COMPLETE"
          /\ pc = "rejected" <=> appState = "ERROR")
    /\ [][/\ Len(events') = 1 => (~FetchInFlight /\ appState # "RESEARCHING")
          /\ (appState = "RESEARCHING" /\ appState' # "RESEARCHING") =>
                 /\ appState' \in {"COMPLETE", "ERROR"}
                 /\ ~FetchInFlight']_vars
    /\ (appState = "RESEARCHING") ~> (appState \in {"COMPLETE", "ERROR"})

\* C29 witness: a fetch has left RESEARCHING for COMPLETE, the App shows its
\* records and the fetch button is enabled again
C29_Witness ==
    /\ appState = "COMPLETE"
    /\ pc = "resolved"
    /\ Len(transcripts) = PER_PAGE + 1
    /\ ~IsBuilding(appState)

----------------------------------------------------------------------------
(* A page whose payload holds no array (C30) *)

IsNonArrayResponse(x) == IsPageResponse(x) /\ x.what \in {"object", "null"}

\* C30 as stated: a page response whose payload is neither an array nor an
\* object with an array under data ends the fetch as an empty page does: the
\* response is the last thing that happens (no onProgress for the page), and
\* the fetch resolves, without error, with the records of the earlier pages
\* (with the empty list on page 1).
C30_AsStated ==
    \A i \in 1..Len(events) :
        IsNonArrayResponse(events[i]) =>
            /\ i = Len(events)
            /\ pc = "resolved"
            /\ thrown = ""
            /\ returned = allTranscripts
            /\ Len(returned) = (events[i].page - 1) * PER_PAGE
            /\ appState = "COMPLETE"

----------------------------------------------------------------------------
(* Termination of the page loop (C31) *)

FetchSettled == pc \in {"resolved", "rejected"}

\* C31: against an upstream that at some page answers with fewer than 50
\* records or with a failure, a fetch in flight eventually returns or throws;
\* the loop has no page cap of its own, so against an upstream that answers
\* every page with 50 records it goes on to the next page and never settles.
C31_TerminatesUnlessEndless ==
    /\ (FetchInFlight /\ ~Endless) ~> FetchSettled
    /\ [](Endless => ~FetchSettled)
    /\ [][(Endless /\ pc = "sleep") => (pc' = "request" /\ inflight'.page = page)]_vars

\* C31 witness: the fetch has taken MaxPage full pages from the endless
\* upstream and is asking for the next one
C31_Witness ==
    /\ Endless
    /\ pc = "request"
    /\ inflight.page = MaxPage + 1
    /\ Len(allTranscripts) = MaxPage * PER_PAGE

----------------------------------------------------------------------------
(* Saving the credentials (C32) *)

AllSpaces(str) == \A k \in 1..Len(str) : str[k] = " "

\* C32: the credentials are written to local storage, and isConfigured is
\* set, only by the step in which the connection test of exactly these
\* trimmed credentials returns (a later mount finds them saved); a test that
\* fails and a submit with an empty field leave local storage and
\* isConfigured as they were and show an error message.
C32_SavedOnlyAfterSuccessfulTest ==
    /\ [](isConfigured =>
            /\ HasSaved(storage)
            /\ apiKey = storage.jc_api_key /\ apiSecret = storage.jc_api_secret)
    /\ [][/\ (storage' # storage /\ storage' # EmptyStorage) =>
                /\ isTesting
                /\ pending.key # << >> /\ pending.secret # << >>
                /\ storage' = [jc_api_key |-> pending.key, jc_api_secret |-> pending.secret]
                /\ isConfigured'
                /\ configError' = NoConfigError
          /\ (isConfigured' /\ ~isConfigured) =>
                \/ storage' # storage
                \/ HasSaved(storage) /\ ~isTesting'
          /\ (configError' # configError /\ configError' # NoConfigError) =>
                /\ storage' = storage /\ isConfigured' = isConfigured
                /\ configError' = "Please enter both API Key and Secret." =>
                       AllSpaces(apiKey) \/ AllSpaces(apiSecret)
          /\ (isTesting /\ ~isTesting' /\ storage' = storage) =>
                \/ configError' # NoConfigError
                \/ apiKey' = << >> /\ apiSecret' = << >> /\ appState' = "IDLE"
         ]_vars

\* C32 witness: the key "k" and the secret "kk", typed with whitespace around
\* them, are saved and isConfigured is set
C32_Witness ==
    /\ isConfigured
    /\ storage = [jc_api_key |-> <<"k">>, jc_api_secret |-> <<"k", "k">>]
    /\ apiKey = <<"k">>
    /\ configError = NoConfigError

----------------------------------------------------------------------------
(* What the App holds in each state (C33) *)

\* C33: the step that starts a fetch sets transcripts to the empty list,
\* count to 0 and error to null, and no request precedes it in the fetch's
\* history; from then on, in ERROR the transcript list is empty and an error
\* message is set, and in COMPLETE the transcript list is the list the fetch
\* returned.
C33_AppStateContents ==
    /\ [](/\ appState = "ERROR" => (transcripts = << >> /\ error \notin {NoErrorText, ""})
          /\ appState = "COMPLETE" => (pc = "resolved" /\ transcripts = returned)
          /\ appState = "RESEARCHING" => transcripts = << >>)
    /\ [][(appState # "RESEARCHING" /\ appState' = "RESEARCHING") =>
              /\ transcripts' = << >> /\ count' = 0 /\ error' = NoErrorText
              /\ Len(events') = 1 /\ IsRequest(events'[1])]_vars

\* C33 witness: a fetch that had reported PER_PAGE records failed on its
\* second page: the App is in ERROR with a message and no transcripts
C33_Witness ==
    /\ appState = "ERROR"
    /\ count = PER_PAGE
    /\ Len(allTranscripts) = PER_PAGE
    /\ transcripts = << >>
    /\ error = thrown

----------------------------------------------------------------------------
(* fetchWithFailover (C34) *)

\* the relay a request of the history goes through, as its place in the list
RelayOf(x) == CHOOSE k \in 1..Len(PROXY_SERVICES) : PROXY_SERVICES[k] = x.via

\* C34: in the failover build the requests for one target URL go through the
\* relays in list order, the first relay first and the next one only after
\* the one before it failed; a relay's response ends the run, no later relay
\* being asked for that URL; and the run fails only on the failure of the
\* last relay of the list, with that relay's error.
C34_FailoverOrder ==
    variant = "Failover" =>
        /\ \A i \in 1..Len(events) :
              /\ IsPageRequest(events[i]) =>
                    IF i \in LoopRequestIdx THEN RelayOf(events[i]) = 1
                    ELSE /\ RelayOf(events[i]) = RelayOf(events[i - 1]) + 1
                         /\ events[i].page = events[i - 1].page
              /\ (IsRelayFailure(events[i]) \/ IsPageResponse(events[i]) \/ IsPageFailure(events[i])) =>
                    /\ IsPageRequest(events[i - 1])
                    /\ events[i - 1].via = events[i].via
              /\ IsRelayFailure(events[i]) =>
                    /\ RelayOf(events[i]) < Len(PROXY_SERVICES)
                    /\ i < Len(events) /\ IsPageRequest(events[i + 1])
              /\ IsPageResponse(events[i]) =>
                    \A j \in (i + 1)..Len(events) :
                        IsPageRequest(events[j]) => events[j].page > events[i].page
              /\ IsPageFailure(events[i]) =>
                    /\ RelayOf(events[i]) = Len(PROXY_SERVICES)
                    /\ i = Len(events)
                    /\ lastError.status = events[i].n
                    /\ thrown = FetchErrorMessage(variant, lastError)

\* C34 witness: page 1 came through the second relay after the first failed,
\* and page 2 failed on all three relays, the last of them with a 429
C34_Witness ==
    /\ variant = "Failover"
    /\ pc = "rejected"
    /\ Len(events) >= 12
    /\ IsRelayFailure(events[2])
    /\ IsPageResponse(events[4]) /\ events[4].via = "allorigins"
    /\ IsPageFailure(events[Len(events)])
    /\ events[Len(events)].page = 2
    /\ lastError = HttpError(429)

----------------------------------------------------------------------------
(* Disconnecting (C35) *)

\* C35: the step that ends the configured state (a confirmed resetConfig)
\* removes both saved entries and leaves the key and the secret empty and
\* isConfigured false; from there a fetch starts only after isConfigured has
\* been set again, which takes a connection test that returns; a declined
\* confirmation, like every other step taken while configured, leaves the
\* saved entries, the key, the secret and isConfigured as they were.
C35_ResetDisconnects ==
    /\ [](~isConfigured =>
             (storage = EmptyStorage /\ ~ENABLED HandleRunExtraction))
    /\ [][/\ (isConfigured /\ ~isConfigured') =>
                /\ storage' = EmptyStorage
                /\ apiKey' = << >> /\ apiSecret' = << >>
                /\ configError' = NoConfigError
          /\ (isConfigured /\ isConfigured') =>
                /\ storage' = storage /\ apiKey' = apiKey /\ apiSecret' = apiSecret
          /\ ResetConfig(FALSE) => UNCHANGED <<builderVars, appVars>>
          /\ (appState # "RESEARCHING" /\ appState' = "RESEARCHING") => isConfigured
          /\ (~isConfigured /\ isConfigured') => (isTesting /\ pending.key # << >>)
         ]_vars

\* C35 witness: after a fetch had completed the user disconnected: nothing
\* is saved, the fields are empty and the form asks for credentials again
C35_Witness ==
    /\ appState = "COMPLETE"
    /\ ~isConfigured
    /\ storage = EmptyStorage
    /\ apiKey = << >> /\ apiSecret = << >>
    /\ ~isTesting

----------------------------------------------------------------------------
(* Export (C36) *)

\* C36: handleDownload writes a file only while the App holds at least one
\* record: the step that produces a file is taken in state COMPLETE with a
\* non-empty transcript list, which is the list the last fetch returned, and
\* the file is convertToCSV of that list; while the list is empty (before
\* any fetch, during a fetch, after a fetch that failed or that found
\* nothing) handleDownload changes nothing, so a file that exists has at
\* least one row under the header.
C36_ExportOnlyWithRecords ==
    /\ [](csvText # << >> => Len(csvData) >= 1)
    /\ [][/\ (csvText' # csvText \/ csvData' # csvData) =>
                /\ appState = "COMPLETE"
                /\ Len(transcripts) >= 1
                /\ transcripts = returned
                /\ Len(csvData') = Len(transcripts)
                /\ csvText' = convertToCSV(csvData')
          /\ (HandleDownload /\ Len(transcripts) = 0) => UNCHANGED csvVars
         ]_vars

\* C36 witness: a fetch completed with 51 records and the export wrote them;
\* a later fetch failed, and the file is still the one written before
C36_Witness ==
    /\ appState = "ERROR"
    /\ transcripts = << >>
    /\ Len(csvData) = PER_PAGE + 1
    /\ csvText = convertToCSV(csvData)

====
